---- MODULE Spec2Model ----
(***************************************************************************)
(* repl-box server (src/src/repl_box/server.py): a stateful Python REPL    *)
(* over a Unix domain socket.  One server process, one namespace, one      *)
(* execution counter; connections are accepted and handled one at a time.  *)
(*                                                                         *)
(* Byte strings are modelled in the shape bytes.split(b"\n") gives them:   *)
(* a non-empty sequence of newline-free segments, so b"" is <<Empty>>,     *)
(* b"X\n" is <<X, Empty>> and b"X\nY" is <<X, Y>>.                         *)
(***************************************************************************)
EXTENDS Integers, Sequences, FiniteSets, TLC

(* ---------------------------------------------------------------------- *)
(* Bounds                                                                  *)
(* ---------------------------------------------------------------------- *)
MaxCounter == 3
MaxBacklog == 1

(* ---------------------------------------------------------------------- *)
(* Python values held by the namespace                                     *)
(* ---------------------------------------------------------------------- *)
Missing == "<missing>"
Handle_ == "<handle>"
Builtins == "<builtins>"
PyNone == "None"
UserNames == {"a", "b"}
Names == UserNames \cup {"__builtins__"}
Vals == {"1", "2", Handle_}

EmptyNamespace == [n \in Names |-> Missing]

Has(ns, n) == ns[n] # Missing

\* the error field of a response: None, or a text identified by its kind
NoError == [e |-> "None", exc |-> ""]
Traceback(exc) == [e |-> "Traceback", exc |-> exc]
BadRequest(why) == [e |-> "Bad request", exc |-> why]
NameErrorText(name) == [e |-> "NameError", exc |-> name]

\* the value field of a get response (NoValue: the response has no such key)
NoValue == [v |-> "absent", of |-> ""]
NullValue == [v |-> "null", of |-> ""]
Encoded(val) == [v |-> "enc", of |-> val]

Response(stdout, stderr, error, value) ==
    [stdout |-> stdout, stderr |-> stderr, error |-> error, value |-> value]
NullResponse == Response(<<>>, <<>>, NoError, NoValue)

\* classes that `except Exception` does not catch
BaseOnly == {"SystemExit", "KeyboardInterrupt"}

(* ---------------------------------------------------------------------- *)
(* Code fragments: what a source text compiles to and does when run        *)
(* ---------------------------------------------------------------------- *)
Assign(n, v) == [op |-> "assign", n |-> n, v |-> v]
Load(n) == [op |-> "load", n |-> n, v |-> PyNone]
PrintOut(s) == [op |-> "print", n |-> s, v |-> PyNone]
PrintErr(s) == [op |-> "warn", n |-> s, v |-> PyNone]
Raise(exc) == [op |-> "raise", n |-> exc, v |-> PyNone]
\* `(n := v) if 'n' in globals() else (globals().update(n=v), eval('1 +'))`
BindOrFail(n, v) == [op |-> "bind", n |-> n, v |-> v]
\* `(n := 3 - n)`: 1 becomes 2 and 2 becomes 1
Flip(n) == [op |-> "flip", n |-> n, v |-> PyNone]
\* `__import__('sys').stdout = dest`
SetOut(dest) == [op |-> "setout", n |-> dest, v |-> PyNone]

Code(src, lines, form, steps) ==
    [c |-> "str", src |-> src, lines |-> lines, form |-> form, steps |-> steps]
NonStrCode == [c |-> "nonstr", src |-> "5", lines |-> <<>>, form |-> "invalid", steps |-> <<>>]

Fragments ==
    { Code("a = 1", <<"a = 1">>, "stmt", <<Assign("a", "1")>>),
      Code("b = 2", <<"b = 2">>, "stmt", <<Assign("b", "2")>>),
      Code("a = 2\nb = 1", <<"a = 2", "b = 1">>, "stmt", <<Assign("a", "2"), Assign("b", "1")>>),
      Code("a = open('f')", <<"a = open('f')">>, "stmt", <<Assign("a", Handle_)>>),
      Code("a", <<"a">>, "expr", <<Load("a")>>),
      Code("1/0", <<"1/0">>, "expr", <<Raise("ZeroDivisionError")>>),
      Code("b = 1; 1/0", <<"b = 1; 1/0">>, "stmt", <<Assign("b", "1"), Raise("ZeroDivisionError")>>),
      Code("print('hi')", <<"print('hi')">>, "expr", <<PrintOut("hi"), PrintOut("\n")>>),
      Code("print('hi', end=''); sys.stderr.write('w'); 1/0",
           <<"print('hi', end=''); sys.stderr.write('w'); 1/0">>, "stmt",
           <<PrintOut("hi"), PrintErr("w"), Raise("ZeroDivisionError")>>),
      Code("(print('x'), eval('1 +'))", <<"(print('x'), eval('1 +'))">>, "expr",
           <<PrintOut("x"), PrintOut("\n"), Raise("SyntaxError")>>),
      Code("(print('x'), (b := 1) if 'b' in globals() else (globals().update(b=1), eval('1 +')))[1]",
           <<"(print('x'), (b := 1) if 'b' in globals() else (globals().update(b=1), eval('1 +')))[1]">>,
           "expr", <<PrintOut("x"), PrintOut("\n"), BindOrFail("b", "1")>>),
      Code("1 +", <<"1 +">>, "invalid", <<>>),
      Code("", <<>>, "stmt", <<>>),
      Code("raise SystemExit", <<"raise SystemExit">>, "stmt", <<Raise("SystemExit")>>),
      NonStrCode }

Step(st, s) ==
    IF st.exc # PyNone THEN st
    ELSE CASE s.op = "assign" -> [st EXCEPT !.ns[s.n] = s.v, !.result = PyNone]
           [] s.op = "load" -> IF Has(st.ns, s.n)
                                THEN [st EXCEPT !.result = st.ns[s.n]]
                                ELSE [st EXCEPT !.exc = "NameError"]
           [] s.op = "print" -> IF st.stdout = "buf"
                                 THEN [st EXCEPT !.out = Append(st.out, s.n), !.result = PyNone]
                                 ELSE [st EXCEPT !.result = PyNone]
           [] s.op = "warn" -> [st EXCEPT !.err = Append(st.err, s.n), !.result = PyNone]
           [] s.op = "raise" -> [st EXCEPT !.exc = s.n]
           [] s.op = "bind" -> IF Has(st.ns, s.n)
                                THEN [st EXCEPT !.ns[s.n] = s.v, !.result = s.v]
                                ELSE [st EXCEPT !.ns[s.n] = s.v, !.exc = "SyntaxError"]
           [] s.op = "flip" -> IF ~Has(st.ns, s.n) THEN [st EXCEPT !.exc = "NameError"]
                                ELSE IF st.ns[s.n] = "1"
                                THEN [st EXCEPT !.ns[s.n] = "2", !.result = "2"]
                                ELSE IF st.ns[s.n] = "2"
                                THEN [st EXCEPT !.ns[s.n] = "1", !.result = "1"]
                                ELSE [st EXCEPT !.exc = "TypeError"]
           [] s.op = "setout" -> [st EXCEPT !.stdout = s.n, !.result = PyNone]

RECURSIVE Run(_, _)
Run(steps, st) ==
    IF steps = <<>> THEN st ELSE Run(Tail(steps), Step(st, Head(steps)))

\* eval(compile(code, "<repl>", "eval"), namespace)
RunEval(code, st) ==
    IF code.c # "str" THEN [st EXCEPT !.exc = "TypeError"]
    ELSE IF code.form # "expr" THEN [st EXCEPT !.exc = "SyntaxError"]
    ELSE Run(code.steps, [st EXCEPT !.ns["__builtins__"] = Builtins])

\* exec(compile(code, "<repl>", "exec"), namespace)
RunExec(code, st) ==
    IF code.c # "str" THEN [st EXCEPT !.exc = "TypeError"]
    ELSE IF code.form = "invalid" THEN [st EXCEPT !.exc = "SyntaxError"]
    ELSE Run(code.steps, [st EXCEPT !.ns["__builtins__"] = Builtins, !.result = PyNone])

FormatInput(code, n) ==
    LET lines == IF code.lines = <<>> THEN <<"">> ELSE code.lines
    IN  <<[k |-> "In", n |-> n, s |-> lines[1]]>>
        \o [i \in 1..(Len(lines) - 1) |-> [k |-> "cont", n |-> 0, s |-> lines[i + 1]]]

RawLines(raw) == [i \in 1..Len(raw) |-> [k |-> "raw", n |-> 0, s |-> raw[i]]]

\* execute, lines 30-33 and 36: empty buffers, no exception, no result, and
\* sys.stdout and sys.stderr pointing at the buffers
Fresh(ns) == [ns |-> ns, out |-> <<>>, err |-> <<>>, exc |-> PyNone, result |-> PyNone,
              stdout |-> "buf", stderr |-> "buf"]

\* execute, lines 41-42: a SyntaxError out of the eval line runs the exec line
Finish(code, ev) ==
    IF ev.exc = "SyntaxError"
    THEN RunExec(code, [ev EXCEPT !.exc = PyNone, !.result = PyNone])
    ELSE ev

\* execute, lines 39-40: the repr of a result the eval line returned
OutRepr(ev) == IF ev.exc = PyNone THEN ev.result ELSE PyNone

\* execute, lines 46-53: the header, the captured text, the Out line
Stdout(code, counter, raw, out_repr) ==
    FormatInput(code, counter)
    \o RawLines(raw)
    \o (IF raw # <<>> /\ raw[Len(raw)] # "\n"
        THEN <<[k |-> "nl", n |-> 0, s |-> "\n"]>> ELSE <<>>)
    \o (IF out_repr # PyNone
        THEN <<[k |-> "Out", n |-> counter, s |-> out_repr]>> ELSE <<>>)

\* execute, lines 43-59: what leaves execute, an exception or the response
Compose(code, counter, out_repr, fin) ==
    IF fin.exc \in BaseOnly
    THEN [escapes |-> fin.exc, namespace |-> fin.ns, response |-> NullResponse]
    ELSE IF code.c # "str"
    THEN [escapes |-> "AttributeError", namespace |-> fin.ns, response |-> NullResponse]
    ELSE [escapes |-> PyNone, namespace |-> fin.ns,
          response |-> Response(Stdout(code, counter, fin.out, out_repr), fin.err,
                                IF fin.exc = PyNone THEN NoError ELSE Traceback(fin.exc),
                                NoValue)]

ExecuteFrom(code, counter, ev) == Compose(code, counter, OutRepr(ev), Finish(code, ev))

\* sys.stdout and sys.stderr of the process
Streams(stdout, stderr) == [stdout |-> stdout, stderr |-> stderr]

\* streams put back only when the block ended without an exception
ExitRedirectOnSuccess(old, fin) ==
    IF fin.exc = PyNone THEN old ELSE Streams(fin.stdout, fin.stderr)

\* execute, line 36: leaving the `with redirect_stdout(...), redirect_stderr(...)`
\* block sets sys.stdout and sys.stderr to what they were on entry, however
\* the block ended and whatever it did to them
ExitRedirect(old, fin) == old

\* execute(code, namespace, counter): the response, the namespace as the
\* fragment left it, and the exception that escapes execute (PyNone if none)
Execute(code, ns, counter) == ExecuteFrom(code, counter, RunEval(code, Fresh(ns)))

\* execute called in a process whose streams are sys: the outcome of Execute
\* and the streams of the process afterwards
ExecuteIn(code, ns, counter, sys) ==
    [ex |-> Execute(code, ns, counter),
     sys |-> ExitRedirect(sys, Finish(code, RunEval(code, Fresh(ns))))]

(* ---------------------------------------------------------------------- *)
(* set payloads: what base64 + cloudpickle decoding of the text gives      *)
(* ---------------------------------------------------------------------- *)
Pair(k, v) == [ok |-> TRUE, k |-> k, v |-> v]
BadPair == [ok |-> FALSE, k |-> "b", v |-> "1"]

Payload(p, u, m, items) == [p |-> p, u |-> u, m |-> m, items |-> items]
DictPayload(m) == Payload("b64", "dict", m, <<>>)
PairsPayload(items) == Payload("b64", "pairs", EmptyNamespace, items)

SetPayloads ==
    { Payload("nonstr", "fail", EmptyNamespace, <<>>),
      Payload("b64", "fail", EmptyNamespace, <<>>),
      Payload("b64", "scalar", EmptyNamespace, <<>>),
      DictPayload([EmptyNamespace EXCEPT !["a"] = "1"]),
      DictPayload([EmptyNamespace EXCEPT !["a"] = "2", !["b"] = "2"]),
      PairsPayload(<<Pair("b", "1")>>),
      PairsPayload(<<Pair("a", "2"), BadPair>>) }

\* cloudpickle.loads(base64.b64decode(text))
Loads(payload) ==
    IF payload.p # "b64" THEN [exc |-> "TypeError", val |-> payload]
    ELSE IF payload.u = "fail" THEN [exc |-> "UnpicklingError", val |-> payload]
    ELSE IF payload.u = "unresolved" THEN [exc |-> "AttributeError", val |-> payload]
    ELSE [exc |-> PyNone, val |-> payload]

\* dict.update with a sequence of pairs inserts them one by one
RECURSIVE UpdatePairs(_, _)
UpdatePairs(ns, items) ==
    IF items = <<>> THEN [ns |-> ns, exc |-> PyNone]
    ELSE IF ~Head(items).ok THEN [ns |-> ns, exc |-> "ValueError"]
    ELSE UpdatePairs([ns EXCEPT ![Head(items).k] = Head(items).v], Tail(items))

\* a merge in which a name already bound keeps its value
NamespaceUpdateKeepsOld(ns, updates) ==
    CASE updates.u = "dict" ->
           [ns |-> [n \in Names |-> IF Has(ns, n) THEN ns[n] ELSE updates.m[n]],
            exc |-> PyNone]
      [] updates.u = "pairs" -> UpdatePairs(ns, updates.items)
      [] OTHER -> [ns |-> ns, exc |-> "TypeError"]

\* namespace.update(updates)
NamespaceUpdate(ns, updates) ==
    CASE updates.u = "dict" ->
           [ns |-> [n \in Names |-> IF updates.m[n] # Missing THEN updates.m[n] ELSE ns[n]],
            exc |-> PyNone]
      [] updates.u = "pairs" -> UpdatePairs(ns, updates.items)
      [] OTHER -> [ns |-> ns, exc |-> "TypeError"]

\* cloudpickle.dumps(value), base64-encoded
Dumps(val) ==
    IF val = Handle_ THEN [exc |-> "TypeError", enc |-> NullValue]
    ELSE [exc |-> PyNone, enc |-> Encoded(val)]

(* ---------------------------------------------------------------------- *)
(* Frames: newline-free byte strings, and what json.loads makes of them    *)
(* ---------------------------------------------------------------------- *)
Keys == {"code", "set", "get"}
NoCode == Code("", <<>>, "stmt", <<>>)
NoPayload == Payload("nonstr", "fail", EmptyNamespace, <<>>)
GetName(n) == [g |-> "name", n |-> n]
GetUnhashable == [g |-> "unhashable", n |-> "[]"]
GetValues == {GetName("a"), GetName("b"), GetUnhashable}

\* a decoded JSON value: j is its type; has is the set of protocol keys that
\* `key in value` finds (keys of an object, items of a list, substrings of a
\* string); code, set and get are the values an object holds under them
Json(j, has, code, set, get) == [j |-> j, has |-> has, code |-> code, set |-> set, get |-> get]
JsonScalar(j) == Json(j, {}, NoCode, NoPayload, GetName("a"))
JsonContainer(j, has) == Json(j, has, NoCode, NoPayload, GetName("a"))
JsonObject(has, code, set, get) == Json("obj", has, code, set, get)

Frame(t, v) == [t |-> t, v |-> v]
Empty == Frame("empty", JsonScalar("null"))
JsonFrame(v) == Frame("json", v)

CodeFrames == {JsonFrame(JsonObject({"code"}, c, NoPayload, GetName("a"))) : c \in Fragments}
SetFrames == {JsonFrame(JsonObject({"set"}, NoCode, p, GetName("a"))) : p \in SetPayloads}
GetFrames == {JsonFrame(JsonObject({"get"}, NoCode, NoPayload, g)) : g \in GetValues}
MultiFrames ==
    { JsonFrame(JsonObject({"set", "code"}, Code("b = 2", <<"b = 2">>, "stmt", <<Assign("b", "2")>>),
                           DictPayload([EmptyNamespace EXCEPT !["a"] = "1"]), GetName("a"))),
      JsonFrame(JsonObject({"get", "code"}, Code("b = 2", <<"b = 2">>, "stmt", <<Assign("b", "2")>>),
                           NoPayload, GetName("a"))),
      JsonFrame(JsonObject({"set", "get"}, NoCode,
                           PairsPayload(<<Pair("b", "1")>>), GetName("b"))),
      JsonFrame(JsonObject(Keys, Code("1/0", <<"1/0">>, "expr", <<Raise("ZeroDivisionError")>>),
                           Payload("b64", "fail", EmptyNamespace, <<>>), GetName("a"))) }
OtherFrames ==
    { Frame("badjson", JsonScalar("null")),
      Frame("badutf8", JsonScalar("null")),
      JsonFrame(JsonScalar("num")),
      JsonFrame(JsonScalar("null")),
      JsonFrame(JsonContainer("list", {})),
      JsonFrame(JsonContainer("list", {"set"})),
      JsonFrame(JsonContainer("list", {"get"})),
      JsonFrame(JsonContainer("str", {"code"})),
      JsonFrame(JsonContainer("obj", {})) }
Frames == CodeFrames \cup SetFrames \cup GetFrames \cup MultiFrames \cup OtherFrames

\* json.loads(raw)
JsonLoads(raw) ==
    CASE raw.t = "badutf8" -> [exc |-> "UnicodeDecodeError", val |-> raw.v]
      [] raw.t = "json" -> [exc |-> PyNone, val |-> raw.v]
      [] OTHER -> [exc |-> "JSONDecodeError", val |-> raw.v]

\* `key in request`: raises TypeError on a number, true, false or null
Iterable(request) == request.j \in {"obj", "list", "str"}
Contains(request, key) == key \in request.has
\* `request[key]`: raises TypeError unless the request is an object
Subscriptable(request) == request.j = "obj"

Result(response, ns, counter, escapes, branch) ==
    [response |-> response, namespace |-> ns, counter |-> counter,
     escapes |-> escapes, branch |-> branch]

\* the chain with the code branch tested first
ShapeCodeFirst(request) ==
    IF Contains(request, "code") THEN "code"
    ELSE IF Contains(request, "set") THEN "set"
    ELSE IF Contains(request, "get") THEN "get"
    ELSE "none"

\* handle, lines 80, 90, 103 and 106: the branch the if/elif chain takes
Shape(request) ==
    IF Contains(request, "set") THEN "set"
    ELSE IF Contains(request, "get") THEN "get"
    ELSE IF Contains(request, "code") THEN "code"
    ELSE "none"

\* the lookup left to fail inside the try block of the get branch
NotFoundAsKeyError(var_name) == Response(<<>>, <<>>, Traceback("KeyError"), NullValue)

\* handle, line 96: the response to a get of a name the namespace lacks
NotFoundResponse(var_name) == Response(<<>>, <<>>, NameErrorText(var_name), NullValue)

\* the counter advanced only for a fragment that did not raise
NextCounterOnSuccess(counter, response) ==
    IF response.error = NoError THEN counter + 1 ELSE counter

\* handle, line 105: counter[0] += 1 after execute returned
NextCounter(counter, response) == counter + 1

\* handle, line 84: request["set"] decoded
Decode(request) ==
    IF Subscriptable(request) THEN Loads(request.set)
    ELSE [exc |-> "TypeError", val |-> NoPayload]

\* handle, line 85: the merge of what was decoded
Merge(ns, dec) ==
    IF dec.exc = PyNone THEN NamespaceUpdate(ns, dec.val) ELSE [ns |-> ns, exc |-> dec.exc]

\* handle, lines 86-89: the response of the set branch
SetResult(counter, upd) ==
    Result(Response(<<>>, <<>>, IF upd.exc = PyNone THEN NoError ELSE Traceback(upd.exc), NoValue),
           upd.ns, counter, PyNone, "set")

\* the encoded value never attached to the response
FoundResultDropsValue(ns, counter, enc) ==
    IF enc.exc = PyNone
    THEN Result(Response(<<>>, <<>>, NoError, NullValue), ns, counter, PyNone, "get")
    ELSE Result(Response(<<>>, <<>>, Traceback(enc.exc), NullValue), ns, counter, PyNone, "get")

\* handle, lines 98-102: the response of a get of a bound name
FoundResult(ns, counter, enc) ==
    IF enc.exc = PyNone
    THEN Result(Response(<<>>, <<>>, NoError, enc.enc), ns, counter, PyNone, "get")
    ELSE Result(Response(<<>>, <<>>, Traceback(enc.exc), NullValue), ns, counter, PyNone, "get")

\* handle, lines 94-102
GetResult(request, ns, counter) ==
    IF ~Subscriptable(request) \/ request.get.g # "name"
    THEN Result(NullResponse, ns, counter, "TypeError", "get")
    ELSE IF ~Has(ns, request.get.n)
    THEN Result(NotFoundResponse(request.get.n), ns, counter, PyNone, "get")
    ELSE FoundResult(ns, counter, Dumps(ns[request.get.n]))

\* handle, lines 104-105: the response of execute, and the counter
CodeResult(counter, ex) ==
    IF ex.escapes # PyNone
    THEN Result(NullResponse, ex.namespace, counter, ex.escapes, "code")
    ELSE Result(ex.response, ex.namespace, NextCounter(counter, ex.response), PyNone, "code")

\* handle, lines 80-107: the dispatch on the decoded request
Dispatch(request, ns, counter) ==
    IF ~Iterable(request) THEN Result(NullResponse, ns, counter, "TypeError", "none")
    ELSE CASE Shape(request) = "set" -> SetResult(counter, Merge(ns, Decode(request)))
           [] Shape(request) = "get" -> GetResult(request, ns, counter)
           [] Shape(request) = "code" ->
                IF ~Subscriptable(request)
                THEN Result(NullResponse, ns, counter, "TypeError", "code")
                ELSE CodeResult(counter, Execute(request.code, ns, counter))
           [] OTHER ->
                Result(Response(<<>>, <<>>, BadRequest("missing 'code', 'set', or 'get'"), NoValue),
                       ns, counter, PyNone, "none")

\* handle, lines 76-78: the outcome of json.loads
BadJson(ns, counter) ==
    Result(Response(<<>>, <<>>, BadRequest("JSONDecodeError"), NoValue), ns, counter, PyNone, "none")

\* the counter advanced for a request that is no code request
Bumped(r) == IF r.escapes = PyNone /\ r.branch # "code" THEN [r EXCEPT !.counter = @ + 1] ELSE r

\* the counter advanced once per parsed frame, whatever its shape
HandleFrameCounting(raw, ns, counter) ==
    CASE JsonLoads(raw).exc = "JSONDecodeError" -> BadJson(ns, counter)
      [] JsonLoads(raw).exc = PyNone -> Bumped(Dispatch(JsonLoads(raw).val, ns, counter))
      [] OTHER -> Result(NullResponse, ns, counter, JsonLoads(raw).exc, "none")

\* handle, lines 75-107: parse one frame and dispatch it
HandleFrame(raw, ns, counter) ==
    CASE JsonLoads(raw).exc = "JSONDecodeError" -> BadJson(ns, counter)
      [] JsonLoads(raw).exc = PyNone -> Dispatch(JsonLoads(raw).val, ns, counter)
      [] OTHER -> Result(NullResponse, ns, counter, JsonLoads(raw).exc, "none")

\* json.dumps(response).encode() + b"\n": one segment, then the newline
OutFrame(t, r) == [t |-> t, r |-> r]
NoBytes == <<OutFrame("empty", NullResponse)>>
JsonDumpsLine(response) == <<OutFrame("json", response), OutFrame("empty", NullResponse)>>

\* what handle leaves behind once its receive loop has ended: the namespace
\* and counter, the bytes it wrote, the number of requests it dispatched and
\* the exception that escapes it
Handled(ns, counter, sent, ndisp, escapes, branch) ==
    [namespace |-> ns, counter |-> counter, sent |-> sent, ndisp |-> ndisp,
     escapes |-> escapes, branch |-> branch]

\* the empty frame parsed like any other
IsNoRequestNever(raw) == FALSE

\* handle, line 72: `if not raw`
IsNoRequest(raw) == raw = Empty

Dispatches(r) == IF r.branch = "none" THEN 0 ELSE 1

\* handle, line 109: conn.sendall, unless an exception is already on its way
Send(peer, r) ==
    IF r.escapes # PyNone
    THEN Handled(r.namespace, r.counter, NoBytes, Dispatches(r), r.escapes, r.branch)
    ELSE IF peer = "closed"
    THEN Handled(r.namespace, r.counter, NoBytes, Dispatches(r), "BrokenPipeError", r.branch)
    ELSE Handled(r.namespace, r.counter, JsonDumpsLine(r.response), Dispatches(r), PyNone, r.branch)

\* handle, lines 72-109 for the frame raw
HandleOne(raw, peer, ns, counter) ==
    IF IsNoRequest(raw) THEN Handled(ns, counter, NoBytes, 0, PyNone, "none")
    ELSE Send(peer, HandleFrame(raw, ns, counter))

\* the bytes of two responses, one after the other
Both(sent1, sent2) ==
    IF sent1 = NoBytes THEN sent2
    ELSE IF sent2 = NoBytes THEN sent1
    ELSE <<sent1[1], sent2[1], sent2[2]>>

Then(h1, h2) ==
    Handled(h2.namespace, h2.counter, Both(h1.sent, h2.sent), h1.ndisp + h2.ndisp,
            h2.escapes, h1.branch)

Pipelined(data, peer, h1) ==
    IF Len(data) > 2 /\ h1.escapes = PyNone
    THEN Then(h1, HandleOne(data[2], peer, h1.namespace, h1.counter))
    ELSE h1

\* every newline-terminated frame of the received bytes handled in turn
HandlePipelined(data, peer, ns, counter) ==
    Pipelined(data, peer, HandleOne(data[1], peer, ns, counter))

\* handle, line 71: only data.split(b"\n")[0] is looked at
Handle(data, peer, ns, counter) == HandleOne(data[1], peer, ns, counter)

(* ---------------------------------------------------------------------- *)
(* The client's set path and the notebook sanitizer                        *)
(* (src/src/repl_box/__init__.py, src/src/repl_box/_notebook.py).          *)
(* A Python string that the code takes apart is a sequence of characters.  *)
(* ---------------------------------------------------------------------- *)
IPYTHON_INJECTED ==
    { <<"g", "e", "t", "_", "i", "p", "y", "t", "h", "o", "n">>,
      <<"d", "i", "s", "p", "l", "a", "y">>,
      <<"e", "x", "i", "t">>,
      <<"q", "u", "i", "t">>,
      <<"I", "n">>,
      <<"O", "u", "t">>,
      <<"_">>,
      <<"_", "_">>,
      <<"_", "_", "_">>,
      <<"_", "i">>,
      <<"_", "i", "i">>,
      <<"_", "i", "i", "i">>,
      <<"_", "i", "h">>,
      <<"_", "o", "h">>,
      <<"_", "d", "h">> }

Digits == {"0", "1", "2", "3", "4", "5", "6", "7", "8", "9"}
\* str.startswith(prefix), str.isdigit() (on ASCII text)
StartsWith(str, prefix) == Len(str) >= Len(prefix) /\ SubSeq(str, 1, Len(prefix)) = prefix
IsDigit(str) == str # <<>> /\ \A i \in DOMAIN str : str[i] \in Digits

\* a value held by a function's globals: the __module__ of its type, what
\* cloudpickle.dumps does with it (PyNone: it succeeds), and the object it is
PyValue(module, dumps, id) == [module |-> module, dumps |-> dumps, id |-> id]
GlobalItem(k, v) == [k |-> k, v |-> v]

GetIpython == <<"g", "e", "t", "_", "i", "p", "y", "t", "h", "o", "n">>
\* the globals of a notebook cell, in dict order: every function of the model
\* captures some of these items
NotebookGlobals ==
    << GlobalItem(GetIpython, PyValue(<<"I", "P", "y", "t", "h", "o", "n", ".", "c", "o", "r", "e">>, "TypeError", 101)),
       GlobalItem(<<"I", "n">>, PyValue(<<"b", "u", "i", "l", "t", "i", "n", "s">>, PyNone, 102)),
       GlobalItem(<<"_", "i", "1">>, PyValue(<<"b", "u", "i", "l", "t", "i", "n", "s">>, PyNone, 103)),
       GlobalItem(<<"_", "i", "x">>, PyValue(<<"b", "u", "i", "l", "t", "i", "n", "s">>, PyNone, 104)),
       GlobalItem(<<"s", "o", "c", "k">>, PyValue(<<"z", "m", "q", ".", "s", "u", "g", "a", "r">>, "TypeError", 105)),
       GlobalItem(<<"d", "b">>, PyValue(<<"s", "q", "l", "i", "t", "e", "3">>, "TypeError", 106)),
       GlobalItem(<<"h", "e", "l", "p", "e", "r">>, PyValue(<<"b", "u", "i", "l", "t", "i", "n", "s">>, PyNone, 107)),
       GlobalItem(<<"c", "o", "m", "m">>, PyValue(<<"i", "p", "y", "k", "e", "r", "n", "e", "l", ".", "c", "o", "m", "m">>, PyNone, 108)) >>

\* the module test without the dot that ends each prefix
is_notebook_global_undotted(k, v) ==
    IF k \in IPYTHON_INJECTED THEN TRUE
    ELSE IF StartsWith(k, <<"_", "i">>) /\ IsDigit(SubSeq(k, 3, Len(k))) THEN TRUE
    ELSE \/ StartsWith(v.module, <<"z", "m", "q">>)
         \/ StartsWith(v.module, <<"i", "p", "y", "k", "e", "r", "n", "e", "l">>)
         \/ StartsWith(v.module, <<"I", "P", "y", "t", "h", "o", "n">>)

\* _is_notebook_global(k, v)
is_notebook_global(k, v) ==
    IF k \in IPYTHON_INJECTED THEN TRUE
    ELSE IF StartsWith(k, <<"_", "i">>) /\ IsDigit(SubSeq(k, 3, Len(k))) THEN TRUE
    ELSE \/ StartsWith(v.module, <<"z", "m", "q", ".">>)
         \/ StartsWith(v.module, <<"i", "p", "y", "k", "e", "r", "n", "e", "l", ".">>)
         \/ StartsWith(v.module, <<"I", "P", "y", "t", "h", "o", "n", ".">>)

\* a Python object given to clean_for_notebook or to Repl.set.  kind: a
\* "function" (callable, with __globals__), a "builtin" (callable, without),
\* a plain "value"; where: the function is a module-level one of an importable
\* "library", a top-level one of the "main" script or notebook, or a "local"
\* one; uses: the global names its body reads
PyObject(id, kind, where, globals, uses) ==
    [id |-> id, kind |-> kind, where |-> where, globals |-> globals, uses |-> uses,
     code |-> "code", name |-> "f", defaults |-> "defaults", closure |-> "closure"]
NoObject == [id |-> 0, kind |-> "value", where |-> "library", globals |-> <<>>, uses |-> {},
             code |-> "", name |-> "", defaults |-> "", closure |-> ""]

Callable(fn) == fn.kind \in {"function", "builtin"}
HasGlobals(fn) == fn.kind = "function"
KeysOf(items) == {items[i].k : i \in DOMAIN items}
ItemsOf(items) == {items[i] : i \in DOMAIN items}

\* lines 48-52: the encode probe of one value, its exception swallowed
Probe(v) == v.dumps = PyNone

\* every item outside the denylist kept without an encode probe
CleanItemsUnprobed(items) ==
    SelectSeq(items, LAMBDA it : ~is_notebook_global(it.k, it.v))

\* clean_for_notebook, lines 44-52: the loop over fn.__globals__.items()
CleanItems(items) ==
    SelectSeq(items, LAMBDA it : ~is_notebook_global(it.k, it.v) /\ Probe(it.v))

\* the outcome of a call: what is returned, the argument as the call left it,
\* the exception raised
Outcome(ret, arg, exc) == [ret |-> ret, arg |-> arg, exc |-> exc]

\* every function with globals rebuilt, get_ipython or not
clean_for_notebook_always(fn, fresh) ==
    IF ~Callable(fn) \/ ~HasGlobals(fn) THEN Outcome(fn, fn, PyNone)
    ELSE Outcome([fn EXCEPT !.id = fresh, !.globals = CleanItems(fn.globals)], fn, PyNone)

\* clean_for_notebook(fn); fresh is the identity of a newly made object
clean_for_notebook(fn, fresh) ==
    IF ~Callable(fn) \/ ~HasGlobals(fn) THEN Outcome(fn, fn, PyNone)
    ELSE IF GetIpython \notin KeysOf(fn.globals) THEN Outcome(fn, fn, PyNone)
    ELSE Outcome([fn EXCEPT !.id = fresh, !.globals = CleanItems(fn.globals)], fn, PyNone)

Fn_ == "<function>"

\* pickle.dumps({"a": obj}), base64-encoded: the plain pickle module writes a
\* function as a reference to its module and qualified name
PickleDumps(obj) ==
    CASE obj.kind = "value" ->
           [exc |-> PyNone, payload |-> DictPayload([EmptyNamespace EXCEPT !["a"] = "1"])]
      [] obj.kind = "builtin" \/ obj.where = "library" ->
           [exc |-> PyNone, payload |-> DictPayload([EmptyNamespace EXCEPT !["a"] = Fn_])]
      [] obj.where = "main" ->
           [exc |-> PyNone, payload |-> Payload("b64", "unresolved", EmptyNamespace, <<>>)]
      [] obj.where = "shell" -> [exc |-> "PicklingError", payload |-> NoPayload]
      [] OTHER -> [exc |-> "AttributeError", payload |-> NoPayload]

NoCall == [pc |-> "none", fn |-> NoObject, ret |-> NoObject, arg |-> NoObject,
           exc |-> PyNone, raised |-> PyNone, text |-> NoError, sent |-> 0,
           k |-> <<>>, v |-> PyValue(<<>>, PyNone, 0), is |-> FALSE,
           cls |-> "none", name |-> "a", data |-> <<>>, op |-> "none"]

(* ---------------------------------------------------------------------- *)
(* The server process                                                      *)
(* ---------------------------------------------------------------------- *)
VARIABLES
    srv,         \* where serve is: "accept" (blocked in accept), "handle", "dead"
    backlog,     \* connections waiting in the listen queue
    conn,        \* the accepted connection: bytes received, EOF seen, peer state
    namespace,   \* the session namespace
    counter,     \* counter[0]
    out,         \* bytes the handler wrote to the accepted connection
    ndisp,       \* requests dispatched on the accepted connection
    transcript,  \* the code responses written so far: In [n] number, error or not
    proc,        \* the server process: its number, exit status, listening socket, signal handlers
    fs,          \* the socket path and the pre-seed file
    client,      \* the caller of start() and Repl.close(): where it is
    nb           \* a client-side call of clean_for_notebook or Repl.set: argument and outcome

vars == <<srv, backlog, conn, namespace, counter, out, ndisp, transcript, proc, fs, client, nb>>
life == <<proc, fs, client, nb>>

\* the socket path holds no file
NoFile == -1

Proc(gen, status, listening, handlers, signalled) ==
    [gen |-> gen, status |-> status, listening |-> listening, handlers |-> handlers,
     signalled |-> signalled, stdout |-> "fd1", stderr |-> "fd2",
     found |-> NoFile, old |-> FALSE]
\* sock: the process that bound the file at the socket path; init: whether the
\* pre-seed file exists; vars: the variables the last start() was given (and
\* pickled into that file, when there were any); bad: the file holds a pickle
\* the server cannot decode
Files(sock, init, variables) ==
    [sock |-> sock, init |-> init, vars |-> variables, bad |-> FALSE]
Client(pc, prev) == [pc |-> pc, prev |-> prev]

\* load_init_namespace: {} or the decoded pre-seed payload
InitNamespaces == {EmptyNamespace, [EmptyNamespace EXCEPT !["a"] = "1"]}

NoConn == [data |-> <<Empty>>, eof |-> FALSE, peer |-> "open", open |-> FALSE]

Init ==
    /\ srv = "accept"
    /\ backlog = 0
    /\ conn = NoConn
    /\ namespace \in InitNamespaces
    /\ counter = 1
    /\ out = NoBytes
    /\ ndisp = 0
    /\ transcript = <<>>
    /\ proc = Proc(1, "running", TRUE, TRUE, FALSE)
    /\ fs = Files(1, FALSE, EmptyNamespace)
    /\ client = Client("returned", EmptyNamespace)
    /\ nb = NoCall

\* a client connects to the listening socket
Connect ==
    /\ proc.listening
    /\ fs.sock = proc.gen
    /\ backlog < MaxBacklog
    /\ backlog' = backlog + 1
    /\ UNCHANGED <<srv, conn, namespace, counter, out, ndisp, transcript, life>>

\* the namespace built anew for each connection
AcceptFreshNamespace ==
    /\ srv = "accept"
    /\ backlog > 0
    /\ counter <= MaxCounter
    /\ srv' = "handle"
    /\ backlog' = backlog - 1
    /\ conn' = [data |-> <<Empty>>, eof |-> FALSE, peer |-> "open", open |-> TRUE]
    /\ out' = NoBytes
    /\ ndisp' = 0
    /\ namespace' = EmptyNamespace
    /\ UNCHANGED <<counter, transcript, life>>

\* a connection accepted while the handler of the previous one still runs
AcceptWhileHandling ==
    /\ srv \in {"accept", "handle"}
    /\ backlog > 0
    /\ counter <= MaxCounter
    /\ srv' = "handle"
    /\ backlog' = backlog - 1
    /\ conn' = [data |-> <<Empty>>, eof |-> FALSE, peer |-> "open", open |-> TRUE]
    /\ out' = NoBytes
    /\ ndisp' = 0
    /\ UNCHANGED <<namespace, counter, transcript, life>>

\* serve, line 151 and the call at line 154
Accept ==
    /\ srv = "accept"
    /\ backlog > 0
    /\ counter <= MaxCounter
    /\ srv' = "handle"
    /\ backlog' = backlog - 1
    /\ conn' = [data |-> <<Empty>>, eof |-> FALSE, peer |-> "open", open |-> TRUE]
    /\ out' = NoBytes
    /\ ndisp' = 0
    /\ UNCHANGED <<namespace, counter, transcript, life>>

\* the request pipelined behind the first frame, when the client sends one
SecondFrame == JsonFrame(JsonObject({"code"}, Code("b = 2", <<"b = 2">>, "stmt", <<Assign("b", "2")>>),
                                    NoPayload, GetName("a")))
Tails == {<<>>, <<Empty>>, <<SecondFrame>>, <<SecondFrame, Empty>>}
FirstChunks == {<<f>> \o t : f \in Frames \cup {Empty}, t \in Tails} \ {<<Empty>>}
LaterChunks == {<<Empty, Empty>>, <<Empty, SecondFrame>>}

HasNewline(data) == Len(data) > 1

\* b"".join of what was received and the new chunk
Joined(data, chunk) == IF data = <<Empty>> THEN chunk ELSE data \o Tail(chunk)

\* handle, lines 65-69: one conn.recv that returns bytes
RecvFrom(first, later) ==
    /\ srv = "handle"
    /\ ~HasNewline(conn.data)
    /\ ~conn.eof
    /\ conn.peer = "open"
    /\ \E chunk \in IF conn.data = <<Empty>> THEN first ELSE later :
          conn' = [conn EXCEPT !.data = Joined(conn.data, chunk)]
    /\ UNCHANGED <<srv, backlog, namespace, counter, out, ndisp, transcript, life>>

Recv == RecvFrom(FirstChunks, LaterChunks)

\* the client shuts down its sending side, or closes the socket
PeerClose ==
    /\ srv = "handle"
    /\ conn.peer = "open"
    /\ \E how \in {"shut_wr", "closed"} : conn' = [conn EXCEPT !.peer = how]
    /\ UNCHANGED <<srv, backlog, namespace, counter, out, ndisp, transcript, life>>

\* handle, lines 66-68: conn.recv returns b"" and the loop breaks
RecvEof ==
    /\ srv = "handle"
    /\ ~HasNewline(conn.data)
    /\ ~conn.eof
    /\ conn.peer # "open"
    /\ conn' = [conn EXCEPT !.eof = TRUE]
    /\ UNCHANGED <<srv, backlog, namespace, counter, out, ndisp, transcript, life>>

ReadDone == HasNewline(conn.data) \/ conn.eof

InNumber(response) == response.stdout[1].n

\* the state the handler leaves: namespace and counter as mutated, the bytes
\* written, and serve back at accept unless an exception ended the process
Return(h) ==
    /\ namespace' = h.namespace
    /\ counter' = h.counter
    /\ out' = h.sent
    /\ ndisp' = h.ndisp
    /\ srv' = IF h.escapes = PyNone THEN "accept" ELSE "dead"
    /\ proc' = IF h.escapes = PyNone THEN proc
                ELSE [proc EXCEPT !.listening = FALSE,
                                  !.status = IF h.escapes = "SystemExit" THEN "0" ELSE "1"]
    /\ transcript' = IF h.escapes = PyNone /\ h.branch = "code"
                     THEN Append(transcript, [n |-> InNumber(h.sent[1].r),
                                              err |-> h.sent[1].r.error # NoError])
                     ELSE transcript

\* handle, lines 71-109, and the return to the loop of serve (or the
\* exception that ends the process)
HandleRequest ==
    /\ srv = "handle"
    /\ ReadDone
    /\ Return(Handle(conn.data, conn.peer, namespace, counter))
    /\ conn' = [conn EXCEPT !.open = FALSE]
    /\ UNCHANGED <<backlog, fs, client, nb>>

Next ==
    \/ Connect
    \/ Accept
    \/ Recv
    \/ PeerClose
    \/ RecvEof
    \/ HandleRequest

Spec == Init /\ [][Next]_vars

(* ---------------------------------------------------------------------- *)
(* The life of a server process: start(), the steps of serve() before its  *)
(* loop, signals, Repl.close()                                             *)
(* ---------------------------------------------------------------------- *)
MaxStarts == 2

\* the keyword arguments a caller gives to start()
Seeds == {EmptyNamespace, [EmptyNamespace EXCEPT !["a"] = "2"]}

\* load_init_namespace: {} without REPL_BOX_INIT, else what the file holds
LoadInitNamespace(f) == IF f.init THEN f.vars ELSE EmptyNamespace

\* start(), lines 163-184: the pre-seed file written when there are variables
\* (pickle writes a function of the caller's main module as a reference the
\* server cannot resolve: decodable is then FALSE), the leftover socket file
\* removed, the server process spawned.  older: a server that still runs on
\* the path and is left behind
Spawn(older) ==
    /\ proc.gen < MaxStarts
    /\ \E variables \in Seeds : \E decodable \in BOOLEAN :
          /\ variables = EmptyNamespace => decodable
          /\ fs' = [Files(NoFile, variables # EmptyNamespace, variables)
                      EXCEPT !.bad = ~decodable]
          /\ client' = Client("polling", namespace)
    /\ proc' = [Proc(proc.gen + 1, "running", FALSE, FALSE, FALSE) EXCEPT !.old = older]
    /\ srv' = "unlink"
    /\ backlog' = 0
    /\ conn' = NoConn
    /\ out' = NoBytes
    /\ ndisp' = 0
    /\ UNCHANGED <<namespace, counter, transcript, nb>>

Start ==
    /\ client.pc \in {"idle", "closed"}
    /\ proc.status # "running"
    /\ Spawn(proc.old)

\* start() called again on the path of a server that is still serving
StartOver ==
    /\ client.pc = "returned"
    /\ proc.status = "running"
    /\ srv = "accept"
    /\ proc.handlers
    /\ ~proc.old
    /\ Spawn(TRUE)

\* the server started from the command line (lines 157-158), without start():
\* no pre-seed file, and nothing removed from the socket path beforehand
Launch ==
    /\ client.pc \in {"idle", "closed"}
    /\ proc.status # "running"
    /\ proc.gen < MaxStarts
    /\ fs' = [fs EXCEPT !.init = FALSE, !.vars = EmptyNamespace, !.bad = FALSE]
    /\ proc' = [Proc(proc.gen + 1, "running", FALSE, FALSE, FALSE) EXCEPT !.old = proc.old]
    /\ srv' = "unlink"
    /\ backlog' = 0
    /\ conn' = NoConn
    /\ out' = NoBytes
    /\ ndisp' = 0
    /\ UNCHANGED <<namespace, counter, transcript, client, nb>>

\* start(), lines 187 and 193: the socket file exists, the Repl is returned
StartReturn ==
    /\ client.pc = "polling"
    /\ fs.sock # NoFile
    /\ client' = [client EXCEPT !.pc = "returned"]
    /\ UNCHANGED <<srv, backlog, conn, namespace, counter, out, ndisp, transcript, proc, fs, nb>>

\* start(), lines 187-190: the deadline passed before the file appeared
StartTimeout ==
    /\ client.pc = "polling"
    /\ fs.sock = NoFile
    /\ client' = [client EXCEPT !.pc = "idle"]
    /\ proc' = IF proc.status = "running"
               THEN [proc EXCEPT !.status = "-9", !.listening = FALSE] ELSE proc
    /\ srv' = IF proc.status = "running" THEN "exited" ELSE srv
    /\ UNCHANGED <<backlog, conn, namespace, counter, out, ndisp, transcript, fs, nb>>

\* a file found at the path left where it is
ServeUnlinkSkipped ==
    /\ srv = "unlink"
    /\ proc' = [proc EXCEPT !.found = fs.sock]
    /\ srv' = "load"
    /\ UNCHANGED <<backlog, conn, namespace, counter, out, ndisp, transcript, fs, client, nb>>

\* serve, lines 127-128; found: what os.path.exists saw at the path
ServeUnlink ==
    /\ srv = "unlink"
    /\ proc' = [proc EXCEPT !.found = fs.sock]
    /\ fs' = [fs EXCEPT !.sock = NoFile]
    /\ srv' = "load"
    /\ UNCHANGED <<backlog, conn, namespace, counter, out, ndisp, transcript, client, nb>>

\* the pre-seed merged into what an earlier process left, the counter kept
ServeLoadResidue ==
    /\ srv = "load"
    /\ namespace' = [n \in Names |-> IF LoadInitNamespace(fs)[n] # Missing
                                     THEN LoadInitNamespace(fs)[n] ELSE namespace[n]]
    /\ fs' = [fs EXCEPT !.init = FALSE]
    /\ srv' = "bind"
    /\ UNCHANGED <<backlog, conn, counter, out, ndisp, transcript, proc, client, nb>>

\* the pre-seed file removed only after it was decoded
ServeLoadLeavesBadFile ==
    /\ srv = "load"
    /\ IF fs.init /\ fs.bad
       THEN /\ srv' = "dead"
            /\ proc' = [proc EXCEPT !.status = "1"]
            /\ fs' = fs
            /\ UNCHANGED <<namespace, counter, transcript>>
       ELSE /\ namespace' = LoadInitNamespace(fs)
            /\ fs' = [fs EXCEPT !.init = FALSE]
            /\ counter' = 1
            /\ transcript' = <<>>
            /\ srv' = "bind"
            /\ proc' = proc
    /\ UNCHANGED <<backlog, conn, out, ndisp, client, nb>>

\* serve, lines 130-131: the namespace of the new process and its counter.
\* load_init_namespace (lines 112-123) unlinks the file in a `finally`: also
\* when cloudpickle.load raised, and the exception then ends the process
ServeLoad ==
    /\ srv = "load"
    /\ fs' = [fs EXCEPT !.init = FALSE]
    /\ IF fs.init /\ fs.bad
       THEN /\ srv' = "dead"
            /\ proc' = [proc EXCEPT !.status = "1"]
            /\ UNCHANGED <<namespace, counter, transcript>>
       ELSE /\ namespace' = LoadInitNamespace(fs)
            /\ counter' = 1
            /\ transcript' = <<>>
            /\ srv' = "bind"
            /\ proc' = proc
    /\ UNCHANGED <<backlog, conn, out, ndisp, client, nb>>

\* serve, lines 133-134: bind creates the socket file, or raises OSError when
\* the path is taken
ServeBind ==
    /\ srv = "bind"
    /\ IF fs.sock = NoFile
       THEN /\ fs' = [fs EXCEPT !.sock = proc.gen]
            /\ srv' = "listen"
            /\ proc' = proc
       ELSE /\ fs' = fs
            /\ srv' = "dead"
            /\ proc' = [proc EXCEPT !.status = "1"]
    /\ UNCHANGED <<backlog, conn, namespace, counter, out, ndisp, transcript, client, nb>>

\* serve, line 135
ServeListen ==
    /\ srv = "listen"
    /\ proc' = [proc EXCEPT !.listening = TRUE]
    /\ srv' = "signals"
    /\ UNCHANGED <<backlog, conn, namespace, counter, out, ndisp, transcript, fs, client, nb>>

\* serve, lines 144-147: the handlers installed, then into the loop
ServeSignals ==
    /\ srv = "signals"
    /\ proc' = [proc EXCEPT !.handlers = TRUE]
    /\ srv' = "accept"
    /\ UNCHANGED <<backlog, conn, namespace, counter, out, ndisp, transcript, fs, client, nb>>

Signals == {"SIGINT", "SIGTERM"}

\* a signal reaches the running server.  With the handlers installed, shutdown
\* (serve, lines 137-142) closes the listening socket, unlinks the socket path
\* and calls sys.exit(0): SystemExit is raised where the main thread stands,
\* in accept or inside handle, whose `with conn` closes the connection.
\* Before line 144 the default disposition ends the process with no cleanup.
Deliver(sig) ==
    /\ proc' = [proc EXCEPT !.signalled = TRUE, !.listening = FALSE,
                            !.status = IF proc.handlers THEN "0"
                                       ELSE IF sig = "SIGTERM" THEN "-15" ELSE "-2"]
    /\ fs' = IF proc.handlers THEN [fs EXCEPT !.sock = NoFile] ELSE fs
    /\ srv' = "exited"
    /\ conn' = [conn EXCEPT !.open = FALSE]
    /\ backlog' = 0

Signal ==
    /\ proc.status = "running"
    /\ \E sig \in Signals : Deliver(sig)
    /\ UNCHANGED <<namespace, counter, out, ndisp, transcript, client, nb>>

\* serve, lines 150-153: accept raises OSError, the loop is left and serve
\* returns; the socket file stays
AcceptFails ==
    /\ srv = "accept"
    /\ srv' = "exited"
    /\ proc' = [proc EXCEPT !.listening = FALSE, !.status = "0"]
    /\ backlog' = 0
    /\ UNCHANGED <<conn, namespace, counter, out, ndisp, transcript, fs, client, nb>>

\* a signal reaches the older server left behind by StartOver: its shutdown
\* (lines 137-142) unlinks whatever file is at the socket path
OldSignal ==
    /\ proc.old
    /\ proc' = [proc EXCEPT !.old = FALSE]
    /\ fs' = [fs EXCEPT !.sock = NoFile]
    /\ UNCHANGED <<srv, backlog, conn, namespace, counter, out, ndisp, transcript, client, nb>>

\* Repl.close (lines 34-38) on the handle of the older server: terminate runs
\* its shutdown, then close itself unlinks the path if a file is there
OldClose ==
    /\ proc.old
    /\ client.pc # "polling"
    /\ proc' = [proc EXCEPT !.old = FALSE]
    /\ fs' = [fs EXCEPT !.sock = NoFile]
    /\ UNCHANGED <<srv, backlog, conn, namespace, counter, out, ndisp, transcript, client, nb>>

\* Repl.close, lines 34-38: terminate, wait, unlink the socket path if it exists
Close ==
    /\ client.pc = "returned"
    /\ client' = [client EXCEPT !.pc = "closed"]
    /\ proc' = IF proc.status = "running"
               THEN [proc EXCEPT !.signalled = TRUE, !.listening = FALSE,
                                 !.status = IF proc.handlers THEN "0" ELSE "-15"]
               ELSE proc
    /\ fs' = [fs EXCEPT !.sock = NoFile]
    /\ srv' = IF proc.status = "running" THEN "exited" ELSE srv
    /\ conn' = [conn EXCEPT !.open = FALSE]
    /\ backlog' = 0
    /\ UNCHANGED <<namespace, counter, out, ndisp, transcript, nb>>

\* the requests sent while the life of the process is explored
LifeFrames ==
    { JsonFrame(JsonObject({"code"}, Code("b = 2", <<"b = 2">>, "stmt", <<Assign("b", "2")>>),
                           NoPayload, GetName("a"))),
      JsonFrame(JsonObject({"code"}, Code("a", <<"a">>, "expr", <<Load("a")>>),
                           NoPayload, GetName("a"))),
      JsonFrame(JsonObject({"get"}, NoCode, NoPayload, GetName("b"))) }
LifeFirstChunks == {<<f>> : f \in LifeFrames} \cup {<<f, Empty>> : f \in LifeFrames}
LifeLaterChunks == {<<Empty, Empty>>}

LifeRecv == RecvFrom(LifeFirstChunks, LifeLaterChunks)

LifeInit ==
    /\ srv = "none"
    /\ backlog = 0
    /\ conn = NoConn
    /\ namespace = EmptyNamespace
    /\ counter = 1
    /\ out = NoBytes
    /\ ndisp = 0
    /\ transcript = <<>>
    /\ proc = Proc(0, "none", FALSE, FALSE, FALSE)
    /\ fs \in {Files(NoFile, FALSE, EmptyNamespace), Files(0, FALSE, EmptyNamespace)}
    /\ client = Client("idle", EmptyNamespace)
    /\ nb = NoCall

LifeNext ==
    \/ Start
    \/ StartOver
    \/ Launch
    \/ AcceptFails
    \/ OldSignal
    \/ OldClose
    \/ StartReturn
    \/ StartTimeout
    \/ ServeUnlink
    \/ ServeLoad
    \/ ServeBind
    \/ ServeListen
    \/ ServeSignals
    \/ Signal
    \/ Close
    \/ Connect
    \/ Accept
    \/ LifeRecv
    \/ PeerClose
    \/ RecvEof
    \/ HandleRequest

LifeSpec == LifeInit /\ [][LifeNext]_vars

(* ---------------------------------------------------------------------- *)
(* Calls made on the client side: clean_for_notebook(fn) and               *)
(* Repl.set(a=fn) against a serving server                                 *)
(* ---------------------------------------------------------------------- *)
Wheres(items) ==
    IF GetIpython \in KeysOf(items) THEN {"main", "shell", "local"}
    ELSE {"library", "main", "shell", "local"}

Helper == NotebookGlobals[7].k

\* the functions a caller may hold: any selection of the notebook globals
\* captured, a body that reads helper when it is there
Functions ==
    UNION { { PyObject(1, "function", w,
                       SelectSeq(NotebookGlobals, LAMBDA it : it.v.id \in S),
                       {Helper} \cap KeysOf(SelectSeq(NotebookGlobals, LAMBDA it : it.v.id \in S)))
              : w \in Wheres(SelectSeq(NotebookGlobals, LAMBDA it : it.v.id \in S)) }
            : S \in SUBSET {NotebookGlobals[i].v.id : i \in DOMAIN NotebookGlobals} }
Objects ==
    Functions \cup { PyObject(1, "builtin", "library", <<>>, {}),
                     PyObject(1, "value", "library", <<>>, {}) }

\* Repl._request, lines 17-23: one connection, one request line written, one
\* response line read and parsed
Request(request, ns, n) == Dispatch(request, ns, n)

\* a set that returns whatever the response says
SetReturnSilent(r) ==
    [raised |-> PyNone, text |-> NoError, namespace |-> r.namespace, sent |-> 1,
     response |-> r.response]

\* Repl.set, lines 31-32: the response to {"set": payload} turned into the
\* return of Repl.set; text is the argument of the RuntimeError raised
SetReturn(r) ==
    [raised |-> IF r.response.error # NoError THEN "RuntimeError" ELSE PyNone,
     text |-> r.response.error,
     namespace |-> r.namespace, sent |-> 1, response |-> r.response]

\* Repl.set, lines 29-32: encode, request, raise RuntimeError on an error;
\* pickle.dumps raising ends the call before anything is sent
SetOutcome(d, ns, n) ==
    IF d.exc # PyNone
    THEN [raised |-> d.exc, text |-> NoError, namespace |-> ns, sent |-> 0,
          response |-> NullResponse]
    ELSE SetReturn(Request(JsonObject({"set"}, NoCode, d.payload, GetName("a")), ns, n))

\* Repl.set(a=obj) against a server with namespace ns
ReplSet(obj, ns, n) == SetOutcome(PickleDumps(obj), ns, n)

\* names a globals dict may hold besides the injected ones, and the
\* __module__ a value's type may have ('' when the type has none)
OtherNames ==
    { <<"_", "i", "1">>,
      <<"_", "i", "4", "2">>,
      <<"_", "i", "0", "0", "7">>,
      <<"_", "i", "x">>,
      <<"_", "i", "1", "x">>,
      <<"_", "i", "4", "_", "2">>,
      <<"i", "1">>,
      <<"_", "I", "1">>,
      <<"x", "_", "i", "1">>,
      <<"_", "1">>,
      <<"h", "e", "l", "p", "e", "r">>,
      <<"I", "n", "_">>,
      <<>> }
GlobalNames == IPYTHON_INJECTED \cup OtherNames
TypeModules ==
    { <<"z", "m", "q", ".", "s", "u", "g", "a", "r">>,
      <<"z", "m", "q">>,
      <<"z", "m", "q", "x", ".", "c", "o", "r", "e">>,
      <<"m", "y", ".", "z", "m", "q", ".", "s", "u", "g", "a", "r">>,
      <<"i", "p", "y", "k", "e", "r", "n", "e", "l", ".", "c", "o", "m", "m">>,
      <<"i", "p", "y", "k", "e", "r", "n", "e", "l">>,
      <<"I", "P", "y", "t", "h", "o", "n", ".", "c", "o", "r", "e">>,
      <<"I", "P", "y", "t", "h", "o", "n">>,
      <<"i", "p", "y", "t", "h", "o", "n", ".", "c", "o", "r", "e">>,
      <<"b", "u", "i", "l", "t", "i", "n", "s">>,
      <<"s", "q", "l", "i", "t", "e", "3">>,
      <<>> }
\* the (k, v) pairs _is_notebook_global is called with
Pairs == {GlobalItem(k, PyValue(m, PyNone, 100)) : k \in GlobalNames, m \in TypeModules}

\* the longest mirrored list
MaxList == 2

\* elements given to a mirrored list: two strings and a pydantic model, which
\* pickle cannot encode; Dump_ is the plain dict model_dump() makes of it
Model_ == "<model>"
Dump_ == "<dump>"
ListItems == {"x", "y", Model_}

\* Context._coerce, context.py lines 31-41; ReplList stores what it is given
Coerce(cls, item) == IF cls = "Context" /\ item = Model_ THEN Dump_ ELSE item
CoerceAll(cls, items) == [i \in DOMAIN items |-> Coerce(cls, items[i])]

\* a call of a mutating method: m its name, then its arguments
Op(m, item, items, index, n) == [m |-> m, item |-> item, items |-> items, index |-> index, n |-> n]
Ops ==
    { Op(m, i, <<>>, 0, 0) : m \in {"append", "remove"}, i \in ListItems }
    \cup { Op(m, "x", its, 0, 0) : m \in {"extend", "__iadd__"},
                                    its \in {<<>>, <<"y">>, <<"x", Model_>>} }
    \cup { Op(m, i, <<>>, ix, 0) : m \in {"insert", "__setitem__"}, i \in {"y", Model_}, ix \in {0, 1} }
    \cup { Op("__delitem__", "x", <<>>, ix, 0) : ix \in {0, 1} }
    \cup { Op("__imul__", "x", <<>>, 0, n) : n \in {0, 2} }
    \cup { Op(m, "x", <<>>, 0, 0) : m \in {"pop", "clear", "sort", "reverse"} }

First(data, item) == CHOOSE i \in DOMAIN data : data[i] = item /\ \A j \in 1..(i - 1) : data[j] # item
Without(data, i) == SubSeq(data, 1, i - 1) \o SubSeq(data, i + 1, Len(data))
Reversed(data) == [i \in DOMAIN data |-> data[Len(data) + 1 - i]]
AllStrings(data) == \A i \in DOMAIN data : data[i] \in {"x", "y"}
Sorted(data) == SelectSeq(data, LAMBDA e : e = "x") \o SelectSeq(data, LAMBDA e : e = "y")
Local(data, exc) == [data |-> data, exc |-> exc]

\* the list operation of a mutating method (the first statement of each of
\* ReplList's methods, __init__.py lines 69-118, and of Context's,
\* context.py lines 46-95) on the local contents; index counts from 0
ApplyOp(cls, data, op) ==
    CASE op.m = "append" -> Local(Append(data, Coerce(cls, op.item)), PyNone)
      [] op.m \in {"extend", "__iadd__"} -> Local(data \o CoerceAll(cls, op.items), PyNone)
      [] op.m = "insert" ->
           IF op.index >= Len(data) THEN Local(Append(data, Coerce(cls, op.item)), PyNone)
           ELSE Local(SubSeq(data, 1, op.index) \o <<Coerce(cls, op.item)>>
                      \o SubSeq(data, op.index + 1, Len(data)), PyNone)
      [] op.m = "remove" ->
           IF \E i \in DOMAIN data : data[i] = op.item
           THEN Local(Without(data, First(data, op.item)), PyNone)
           ELSE Local(data, "ValueError")
      [] op.m = "pop" ->
           IF data = <<>> THEN Local(data, "IndexError")
           ELSE Local(SubSeq(data, 1, Len(data) - 1), PyNone)
      [] op.m = "clear" -> Local(<<>>, PyNone)
      [] op.m = "sort" ->
           IF Len(data) < 2 THEN Local(data, PyNone)
           ELSE IF AllStrings(data) THEN Local(Sorted(data), PyNone)
           ELSE Local(data, "TypeError")
      [] op.m = "reverse" -> Local(Reversed(data), PyNone)
      [] op.m = "__setitem__" ->
           IF op.index >= Len(data) THEN Local(data, "IndexError")
           ELSE Local([data EXCEPT ![op.index + 1] = Coerce(cls, op.item)], PyNone)
      [] op.m = "__delitem__" ->
           IF op.index >= Len(data) THEN Local(data, "IndexError")
           ELSE Local(Without(data, op.index + 1), PyNone)
      [] OTHER ->
           IF op.n = 0 THEN Local(<<>>, PyNone) ELSE Local(data \o data, PyNone)

\* the arguments `initial` of the two constructors; Context.__init__ does not
\* coerce them
Initials == {<<>>, <<"x">>, <<"y", "x">>, <<Model_>>}

\* the list as the server unpickles it: an equal list of equal elements,
\* written as the text of its elements
RECURSIVE Joined_(_)
Joined_(data) ==
    IF data = <<>> THEN ""
    ELSE IF Len(data) = 1 THEN data[1]
    ELSE data[1] \o ", " \o Joined_(Tail(data))
ListValue(data) == "[" \o Joined_(data) \o "]"

\* a sync that sends the last element only
SnapshotTail(data) == IF data = <<>> THEN data ELSE <<data[Len(data)]>>

\* _sync: the argument of set is the whole list (self._data, list(self))
Snapshot(data) == data

\* pickle.dumps({name: data}), base64-encoded
PickleList(name, data) ==
    IF \E i \in DOMAIN data : data[i] = Model_
    THEN [exc |-> "TypeError", payload |-> NoPayload]
    ELSE [exc |-> PyNone,
          payload |-> DictPayload([EmptyNamespace EXCEPT ![name] = ListValue(data)])]

\* ReplList._sync (__init__.py lines 64-65), Context._sync (context.py lines
\* 43-44): Repl.set(name=snapshot)
Sync(name, data, ns, n) == SetOutcome(PickleList(name, Snapshot(data)), ns, n)

\* a mutating method: the list operation, then _sync unless that raised
Mirror(ap, name, ns, n) ==
    IF ap.exc # PyNone
    THEN [raised |-> ap.exc, text |-> NoError, namespace |-> ns, sent |-> 0,
          response |-> NullResponse]
    ELSE Sync(name, ap.data, ns, n)

ClientInit ==
    /\ srv = "accept"
    /\ backlog = 0
    /\ conn = NoConn
    /\ namespace = EmptyNamespace
    /\ counter = 1
    /\ out = NoBytes
    /\ ndisp = 0
    /\ transcript = <<>>
    /\ proc = Proc(1, "running", TRUE, TRUE, FALSE)
    /\ fs = Files(1, FALSE, EmptyNamespace)
    /\ client = Client("returned", EmptyNamespace)
    /\ \/ \E fn \in Objects : nb = [NoCall EXCEPT !.pc = "start", !.fn = fn]
       \/ \E it \in Pairs : nb = [NoCall EXCEPT !.pc = "pair", !.k = it.k, !.v = it.v]
       \/ \E cls \in {"Context", "ReplList"} : \E name \in UserNames :
             nb = [NoCall EXCEPT !.pc = "new", !.cls = cls, !.name = name]

\* clean_for_notebook(nb.fn)
CleanCall ==
    /\ nb.pc = "start"
    /\ nb' = [nb EXCEPT !.pc = "cleaned",
                        !.ret = clean_for_notebook(nb.fn, nb.fn.id + 1).ret,
                        !.arg = clean_for_notebook(nb.fn, nb.fn.id + 1).arg,
                        !.exc = clean_for_notebook(nb.fn, nb.fn.id + 1).exc]
    /\ UNCHANGED <<srv, backlog, conn, namespace, counter, out, ndisp, transcript, proc, fs, client>>

\* repl.set(a=nb.fn): the request is served before the call returns
SetCall ==
    /\ nb.pc = "start"
    /\ srv = "accept"
    /\ nb' = [nb EXCEPT !.pc = "set",
                        !.raised = ReplSet(nb.fn, namespace, counter).raised,
                        !.text = ReplSet(nb.fn, namespace, counter).text,
                        !.sent = ReplSet(nb.fn, namespace, counter).sent]
    /\ namespace' = ReplSet(nb.fn, namespace, counter).namespace
    /\ ndisp' = ndisp + ReplSet(nb.fn, namespace, counter).sent
    /\ out' = IF ReplSet(nb.fn, namespace, counter).sent = 0 THEN out
              ELSE JsonDumpsLine(ReplSet(nb.fn, namespace, counter).response)
    /\ UNCHANGED <<srv, backlog, conn, counter, transcript, proc, fs, client>>

\* _is_notebook_global(nb.k, nb.v)
PredicateCall ==
    /\ nb.pc = "pair"
    /\ nb' = [nb EXCEPT !.pc = "judged", !.is = is_notebook_global(nb.k, nb.v)]
    /\ UNCHANGED <<srv, backlog, conn, namespace, counter, out, ndisp, transcript, proc, fs, client>>

\* what a call on a mirrored list leaves: the local contents, what was
\* raised, the request on the wire and the server's answer to it
ListReturn(pc, op, ap, r) ==
    /\ nb' = [nb EXCEPT !.pc = pc, !.op = op, !.data = ap.data, !.raised = r.raised,
                        !.text = r.text, !.sent = r.sent]
    /\ namespace' = r.namespace
    /\ ndisp' = r.sent
    /\ out' = IF r.sent = 0 THEN NoBytes ELSE JsonDumpsLine(r.response)
    /\ conn' = IF r.sent = 0 THEN NoConn
               ELSE [NoConn EXCEPT !.data =
                        <<JsonFrame(JsonObject({"set"}, NoCode,
                                               PickleList(nb.name, Snapshot(ap.data)).payload,
                                               GetName("a"))),
                          Empty>>]
    /\ UNCHANGED <<srv, backlog, counter, transcript, proc, fs, client>>

\* ReplList(repl, name, initial) (__init__.py lines 58-62) and
\* Context(repl, name, initial) (context.py lines 25-29)
ListNew ==
    /\ nb.pc = "new"
    /\ \E initial \in Initials :
          /\ Len(initial) <= MaxList
          /\ ListReturn(IF Mirror(Local(initial, PyNone), nb.name, namespace, counter).raised = PyNone
                        THEN "list" ELSE "failed",
                        "__init__", Local(initial, PyNone),
                        Mirror(Local(initial, PyNone), nb.name, namespace, counter))

\* a mutating method called on the list
ListOp ==
    /\ nb.pc = "list"
    /\ \E op \in Ops :
          /\ Len(ApplyOp(nb.cls, nb.data, op).data) <= MaxList
          /\ ListReturn("list", op.m, ApplyOp(nb.cls, nb.data, op),
                        Mirror(ApplyOp(nb.cls, nb.data, op), nb.name, namespace, counter))

ClientNext ==
    \/ CleanCall
    \/ SetCall
    \/ PredicateCall
    \/ ListNew
    \/ ListOp

ClientSpec == ClientInit /\ [][ClientNext]_vars

(* ---------------------------------------------------------------------- *)
(* execute() called request after request on one namespace, in a process   *)
(* with given sys.stdout and sys.stderr                                    *)
(* ---------------------------------------------------------------------- *)
ExecFragments ==
    Fragments \cup
    { Code("(a := 3 - a, eval('1 +'))", <<"(a := 3 - a, eval('1 +'))">>, "expr",
           <<Flip("a"), Raise("SyntaxError")>>),
      Code("__import__('sys').stdout = __import__('sys').__stdout__; print('hi')",
           <<"__import__('sys').stdout = __import__('sys').__stdout__; print('hi')">>, "stmt",
           <<SetOut("fd1"), PrintOut("hi"), PrintOut("\n")>>),
      Code("__import__('sys').stdout = __import__('sys').__stdout__; 1/0",
           <<"__import__('sys').stdout = __import__('sys').__stdout__; 1/0">>, "stmt",
           <<SetOut("fd1"), Raise("ZeroDivisionError")>>) }
ExecFrames == {JsonFrame(JsonObject({"code"}, c, NoPayload, GetName("a"))) : c \in ExecFragments}

ExecInit ==
    /\ srv = "accept"
    /\ backlog = 0
    /\ conn = NoConn
    /\ namespace \in InitNamespaces
    /\ counter = 1
    /\ out = NoBytes
    /\ ndisp = 0
    /\ transcript = <<>>
    /\ \E o \in {"fd1", "pipe"} :
          proc = [Proc(1, "running", TRUE, TRUE, FALSE) EXCEPT !.stdout = o]
    /\ fs = Files(1, FALSE, EmptyNamespace)
    /\ client = Client("returned", EmptyNamespace)
    /\ nb = NoCall

\* handle, lines 62-79 and 103: a connection accepted and a code request
\* read and parsed
ReceiveCode ==
    /\ srv = "accept"
    /\ counter <= MaxCounter
    /\ \E f \in ExecFrames :
          conn' = [data |-> <<f, Empty>>, eof |-> FALSE, peer |-> "open", open |-> TRUE]
    /\ srv' = "handle"
    /\ out' = NoBytes
    /\ ndisp' = 0
    /\ UNCHANGED <<backlog, namespace, counter, transcript, life>>

\* what the handler and execute leave: as Return, and the streams of the process
ExecReturn(h, sys) ==
    /\ namespace' = h.namespace
    /\ counter' = h.counter
    /\ out' = h.sent
    /\ ndisp' = h.ndisp
    /\ srv' = IF h.escapes = PyNone THEN "accept" ELSE "dead"
    /\ proc' = [proc EXCEPT !.stdout = sys.stdout,
                            !.stderr = sys.stderr,
                            !.listening = h.escapes = PyNone,
                            !.status = IF h.escapes = PyNone THEN "running"
                                       ELSE IF h.escapes = "SystemExit" THEN "0" ELSE "1"]
    /\ transcript' = IF h.escapes = PyNone
                     THEN Append(transcript, [n |-> InNumber(h.sent[1].r),
                                              err |-> h.sent[1].r.error # NoError])
                     ELSE transcript

\* handle, lines 104-109: execute, the counter, the response sent
ExecuteCall ==
    /\ srv = "handle"
    /\ ExecReturn(Send(conn.peer,
                       CodeResult(counter,
                                  ExecuteIn(conn.data[1].v.code, namespace, counter,
                                            Streams(proc.stdout, proc.stderr)).ex)),
                  ExecuteIn(conn.data[1].v.code, namespace, counter, Streams(proc.stdout, proc.stderr)).sys)
    /\ conn' = [conn EXCEPT !.open = FALSE]
    /\ UNCHANGED <<backlog, fs, client, nb>>

ExecNext ==
    \/ ReceiveCode
    \/ ExecuteCall

ExecSpec == ExecInit /\ [][ExecNext]_vars

(* ---------------------------------------------------------------------- *)
(* Vocabulary of the properties                                            *)
(* ---------------------------------------------------------------------- *)
\* the step in which the handler, its receive loop over, parses, dispatches,
\* answers and returns (or lets an exception end the process)
HandleStep == srv = "handle" /\ srv' # "handle"
Served == srv' = "accept"
Raw == conn.data[1]
Req == Raw.v
IsObject == Raw.t = "json" /\ Req.j = "obj"
PeerListens == conn.peer # "closed"
Answered(o) == Len(o) = 2 /\ o[1].t = "json" /\ o[2].t = "empty"
Answer(o) == o[1].r

AssignsTo(steps, n) == {i \in DOMAIN steps : steps[i].op \in {"assign", "bind"} /\ steps[i].n = n}
LastOf(S) == CHOOSE i \in S : \A j \in S : j <= i

HasOutLine(stdout, val) ==
    \E i \in DOMAIN stdout : stdout[i].k = "Out" /\ stdout[i].s = val

(* ---------------------------------------------------------------------- *)
(* C1: between two requests nothing touches the namespace (it changes only *)
(* in the step that handles a request), and the request is dispatched      *)
(* against what the earlier requests left: a successful set of a mapping   *)
(* binds the mapping's keys and keeps every other name, a code request     *)
(* that completed binds what it assigned and keeps every other name, a     *)
(* raised one keeps every name it did not assign, and a get changes        *)
(* nothing.                                                                *)
(* ---------------------------------------------------------------------- *)
C1_NamespacePersists ==
    [][ IF ~HandleStep THEN namespace' = namespace
        ELSE (Served /\ IsObject) =>
             CASE Shape(Req) = "set" /\ Req.set.p = "b64" /\ Req.set.u = "dict" ->
                    \A n \in Names :
                        namespace'[n] = IF Req.set.m[n] # Missing THEN Req.set.m[n] ELSE namespace[n]
               [] Shape(Req) = "get" -> namespace' = namespace
               [] Shape(Req) = "code" ->
                    \A n \in UserNames :
                        IF AssignsTo(Req.code.steps, n) = {}
                        THEN namespace'[n] = namespace[n]
                        ELSE Answer(out').error = NoError =>
                             namespace'[n] = Req.code.steps[LastOf(AssignsTo(Req.code.steps, n))].v
               [] OTHER -> TRUE ]_vars

\* a later request reads a value that only an earlier request can have bound
C1_Witness ==
    /\ srv = "accept"
    /\ Answered(out)
    /\ IsObject /\ Shape(Req) = "code"
    /\ HasOutLine(Answer(out).stdout, "2")
    /\ namespace["b"] = "1"

(* ---------------------------------------------------------------------- *)
(* C2: a set request answered with a non-null error leaves the namespace   *)
(* exactly as it was.                                                      *)
(* ---------------------------------------------------------------------- *)
C2_FailedSetLeavesNamespace ==
    [][ (HandleStep /\ Served /\ Raw.t = "json" /\ Iterable(Req) /\ Shape(Req) = "set"
         /\ Answered(out') /\ Answer(out').error # NoError)
        => namespace' = namespace ]_vars

(* ---------------------------------------------------------------------- *)
(* C3: whatever a code request's fragment is or raises, the handler        *)
(* answers the (still listening) client with one response and the server   *)
(* goes back to accepting.                                                 *)
(* ---------------------------------------------------------------------- *)
C3_CodeNeverStopsServer ==
    [][ (HandleStep /\ PeerListens /\ IsObject /\ Shape(Req) = "code")
        => (Served /\ Answered(out')) ]_vars

(* ---------------------------------------------------------------------- *)
(* C4: the code responses of one server process carry the headers In [1],  *)
(* In [2], ... in order, whether or not the requests raised, and an Out[n] *)
(* line carries the number of its response's In [n] header.                *)
(* ---------------------------------------------------------------------- *)
C4_TranscriptNumbers ==
    /\ \A i \in DOMAIN transcript : transcript[i].n = i
    /\ (Answered(out) /\ Answer(out).stdout # <<>>) =>
          /\ Answer(out).stdout[1].k = "In"
          /\ \A j \in DOMAIN Answer(out).stdout :
                /\ j > 1 => Answer(out).stdout[j].k # "In"
                /\ Answer(out).stdout[j].k = "Out" => Answer(out).stdout[j].n = Answer(out).stdout[1].n

\* a request that raised took In [1], and the third response has an Out[3] line
C4_Witness ==
    /\ Len(transcript) = 3
    /\ transcript[1].err
    /\ Answered(out)
    /\ \E j \in DOMAIN Answer(out).stdout :
          Answer(out).stdout[j].k = "Out" /\ Answer(out).stdout[j].n = 3

(* ---------------------------------------------------------------------- *)
(* C5: the counter never changes except by +1 in the step that dispatches  *)
(* a code request (an object with the key code and neither set nor get).   *)
(* ---------------------------------------------------------------------- *)
C5_CounterOnlyOnCode ==
    [][ \/ counter' = counter
        \/ /\ counter' = counter + 1
           /\ HandleStep
           /\ IsObject /\ Req.has = {"code"} ]_vars

\* a set or get request was handled after a code request and left the counter at 2
C5_Witness ==
    /\ srv = "accept"
    /\ counter = 2
    /\ Answered(out)
    /\ IsObject /\ Shape(Req) \in {"set", "get"}

(* ---------------------------------------------------------------------- *)
(* C6: a non-empty frame that does not parse, or parses to anything but an *)
(* object with one of the keys code, set, get, is answered with a non-null *)
(* error, leaves namespace and counter alone and does not stop the server. *)
(* ---------------------------------------------------------------------- *)
C6_BadFrameAnswered ==
    [][ (HandleStep /\ PeerListens /\ Raw # Empty
         /\ (Raw.t # "json" \/ Req.j # "obj" \/ Req.has = {}))
        => /\ Served
           /\ Answered(out') /\ Answer(out').error # NoError
           /\ namespace' = namespace /\ counter' = counter ]_vars

(* ---------------------------------------------------------------------- *)
(* C7 as stated: an object with more than one of the keys is answered with *)
(* an error and changes neither namespace nor counter.                     *)
(* ---------------------------------------------------------------------- *)
C7_MultiShapeRejected ==
    [][ (HandleStep /\ PeerListens /\ IsObject /\ Cardinality(Req.has) > 1)
        => /\ Answered(out') /\ Answer(out').error # NoError
           /\ namespace' = namespace /\ counter' = counter ]_vars

(* ---------------------------------------------------------------------- *)
(* C7 as amended: an object with more than one of the keys is dispatched   *)
(* to exactly one operation, set before get before code, and is handled    *)
(* as the object with that one key alone would be; the other operations    *)
(* are not performed: no fragment is executed (the counter stays, the      *)
(* response has no transcript) and without the set key the namespace       *)
(* stays.                                                                  *)
(* ---------------------------------------------------------------------- *)
TopKey(has) == IF "set" \in has THEN "set" ELSE IF "get" \in has THEN "get" ELSE "code"
SameEffect(h) == namespace' = h.namespace /\ counter' = h.counter /\ out' = h.sent

C7_PriorityDispatch ==
    [][ (HandleStep /\ IsObject /\ Cardinality(Req.has) > 1)
        => /\ SameEffect(HandleOne(JsonFrame([Req EXCEPT !.has = {TopKey(Req.has)}]),
                                    conn.peer, namespace, counter))
           /\ counter' = counter
           /\ "set" \notin Req.has => namespace' = namespace
           /\ Answered(out') => Answer(out').stdout = <<>> ]_vars

\* {"set": ..., "code": "b = 2"} merged the set payload and did not run the code
C7_Witness ==
    /\ srv = "accept"
    /\ IsObject /\ Req.has = {"set", "code"}
    /\ Answered(out) /\ Answer(out).error = NoError
    /\ namespace["a"] = "1" /\ namespace["b"] = Missing
    /\ counter = 1

(* ---------------------------------------------------------------------- *)
(* C8: on every accepted connection at most one request is dispatched and  *)
(* at most one response frame, ended by the only newline written, is sent, *)
(* and the connection is closed when the handler is left; a request that   *)
(* follows the first newline is not dispatched.                            *)
(* ---------------------------------------------------------------------- *)
C8_OneRequestPerConnection ==
    /\ [](/\ ndisp <= 1
          /\ out = NoBytes \/ Answered(out)
          /\ srv # "handle" => ~conn.open)
    /\ [][ (HandleStep /\ Len(conn.data) > 1 /\ conn.data[2] # Empty)
           => /\ counter' <= counter + 1
              /\ (Raw = Empty \/ ~IsObject \/ Shape(Req) \in {"get", "none"})
                 => (namespace' = namespace /\ counter' = counter) ]_vars

\* the client sent a second request behind the first; only the first was served
C8_Witness ==
    /\ srv = "accept"
    /\ Len(conn.data) = 3 /\ conn.data[2] = SecondFrame
    /\ ndisp = 1 /\ Answered(out)
    /\ namespace["b"] = Missing
    /\ counter = 1

(* ---------------------------------------------------------------------- *)
(* C9 as stated: an empty frame, or a connection closed before any newline *)
(* arrived (with or without bytes), is no request: nothing is dispatched   *)
(* or written, namespace and counter stay.  Taken for a client that only   *)
(* shut down its sending side, so that no failed write is involved.        *)
(* ---------------------------------------------------------------------- *)
C9_NoNewlineNoRequest ==
    [][ (HandleStep /\ PeerListens /\ (Raw = Empty \/ ~HasNewline(conn.data)))
        => /\ ndisp' = 0 /\ out' = NoBytes
           /\ namespace' = namespace /\ counter' = counter ]_vars

(* ---------------------------------------------------------------------- *)
(* C9 as amended: an empty first frame, or a connection closed before any  *)
(* byte arrived, is no request: nothing is dispatched or written,          *)
(* namespace and counter stay and the server goes on.                      *)
(* ---------------------------------------------------------------------- *)
C9_EmptyFrameNoRequest ==
    [][ (HandleStep /\ Raw = Empty)
        => /\ ndisp' = 0 /\ out' = NoBytes
           /\ namespace' = namespace /\ counter' = counter
           /\ Served ]_vars

\* a connection whose first byte was the newline was handled and left no trace
C9_Witness ==
    /\ srv = "accept"
    /\ Len(conn.data) > 1 /\ Raw = Empty /\ conn.data[2] = SecondFrame
    /\ ~conn.open
    /\ out = NoBytes

(* ---------------------------------------------------------------------- *)
(* C10: a get of a name the namespace lacks is answered with the NameError *)
(* text for that name and a null value, and changes neither namespace nor  *)
(* counter.                                                                *)
(* ---------------------------------------------------------------------- *)
C10_GetUndefined ==
    [][ (HandleStep /\ PeerListens /\ IsObject /\ Shape(Req) = "get"
         /\ Req.get.g = "name" /\ namespace[Req.get.n] = Missing)
        => /\ Served
           /\ Answered(out')
           /\ Answer(out').error = NameErrorText(Req.get.n)
           /\ Answer(out').value = NullValue
           /\ Answer(out').stdout = <<>> /\ Answer(out').stderr = <<>>
           /\ namespace' = namespace /\ counter' = counter ]_vars

\* the not-found response was written
C10_Witness ==
    /\ srv = "accept"
    /\ IsObject /\ Req.has = {"get"}
    /\ Answered(out)
    /\ Answer(out).error.e = "NameError"
    /\ Answer(out).value = NullValue

(* ---------------------------------------------------------------------- *)
(* C11 as stated: a get of a name the namespace holds is answered with the *)
(* encoding of the value bound to it and a null error.                     *)
(* ---------------------------------------------------------------------- *)
C11_GetBoundEncodes ==
    [][ (HandleStep /\ PeerListens /\ IsObject /\ Shape(Req) = "get"
         /\ Req.get.g = "name" /\ namespace[Req.get.n] # Missing)
        => /\ Answered(out')
           /\ Answer(out').error = NoError
           /\ Answer(out').value = Encoded(namespace[Req.get.n]) ]_vars

(* ---------------------------------------------------------------------- *)
(* C11 as amended: a get of a name bound to a value the codec can encode   *)
(* is answered with the encoding of the value bound at that moment and a   *)
(* null error; a get of a name bound to a value the codec cannot encode is *)
(* answered with the failure trace and a null value; a get changes neither *)
(* namespace nor counter, and in every get response the value is non-null  *)
(* exactly when the error is null.                                         *)
(* ---------------------------------------------------------------------- *)
C11_GetEncodable ==
    [][ (HandleStep /\ PeerListens /\ IsObject /\ Shape(Req) = "get" /\ Req.get.g = "name")
        => /\ Served
           /\ Answered(out')
           /\ namespace' = namespace /\ counter' = counter
           /\ Answer(out').value # NoValue
           /\ (Answer(out').value # NullValue) <=> (Answer(out').error = NoError)
           /\ namespace[Req.get.n] \in Vals \ {Handle_} =>
                 /\ Answer(out').error = NoError
                 /\ Answer(out').value = Encoded(namespace[Req.get.n])
           /\ namespace[Req.get.n] = Handle_ =>
                 /\ Answer(out').error = Traceback("TypeError")
                 /\ Answer(out').value = NullValue ]_vars

\* a get returned the encoding of a value that an earlier request had rebound
C11_Witness ==
    /\ srv = "accept"
    /\ IsObject /\ Req.has = {"get"} /\ Req.get.g = "name"
    /\ Answered(out)
    /\ Answer(out).error = NoError
    /\ Answer(out).value = Encoded("2")
    /\ namespace[Req.get.n] = "2"
    /\ counter > 1

(* ---------------------------------------------------------------------- *)
(* C12: a connection is taken from the listen queue only while serve is    *)
(* blocked in accept with the previous handler returned and its connection *)
(* closed; a connection is open exactly while its handler runs, and the    *)
(* namespace, the counter and the bytes written change only in steps of    *)
(* that one handler.                                                       *)
(* ---------------------------------------------------------------------- *)
C12_SequentialAccept ==
    /\ [](conn.open <=> srv = "handle")
    /\ [][ backlog' < backlog => (srv = "accept" /\ ~conn.open /\ srv' = "handle" /\ conn'.open) ]_vars
    /\ [][ (namespace' # namespace \/ counter' # counter \/ (out' # out /\ out' # NoBytes))
           => (HandleStep /\ conn.open) ]_vars

\* a second client waits in the listen queue while a received request is in the handler
C12_Witness ==
    /\ srv = "handle"
    /\ conn.open
    /\ HasNewline(conn.data) /\ Raw # Empty
    /\ backlog = 1

(* ---------------------------------------------------------------------- *)
(* Vocabulary of the properties about execute                              *)
(* ---------------------------------------------------------------------- *)
IsCode == IsObject /\ Shape(Req) = "code"
\* the fragment compiled as a single expression
AsExpression == Req.code.c = "str" /\ Req.code.form = "expr"
\* the fragment evaluated, and the fragment run as statements, from the
\* namespace the request found
Evaluated == RunEval(Req.code, Fresh(namespace))
Executed == RunExec(Req.code, Fresh(namespace))
\* the fragment raised: the evaluation of an expression, the run of statements
Raised == IF AsExpression THEN Evaluated.exc # PyNone ELSE Executed.exc # PyNone
HasOut(stdout) == \E i \in DOMAIN stdout : stdout[i].k = "Out"
Prefix(p, q) == Len(p) <= Len(q) /\ \A i \in DOMAIN p : p[i] = q[i]
OfKind(stdout, k) == SelectSeq(stdout, LAMBDA l : l.k = k)
Texts(ls) == [i \in DOMAIN ls |-> ls[i].s]
Rank(k) == CASE k = "In" -> 1 [] k = "cont" -> 2 [] k = "raw" -> 3 [] k = "nl" -> 4 [] OTHER -> 5

(* ---------------------------------------------------------------------- *)
(* C16: a code response has an Out[n] line exactly when the fragment       *)
(* compiled as a single expression, its evaluation did not raise and its   *)
(* result is not None, the line shows that result, and the response to a   *)
(* fragment that raised carries the failure trace as its error.            *)
(* ---------------------------------------------------------------------- *)
C16_OutLineIffValue ==
    [][ (HandleStep /\ IsCode /\ Answered(out'))
        => /\ HasOut(Answer(out').stdout)
                <=> (AsExpression /\ Evaluated.exc = PyNone /\ Evaluated.result # PyNone)
           /\ HasOut(Answer(out').stdout) => HasOutLine(Answer(out').stdout, Evaluated.result)
           /\ Raised => Answer(out').error.e = "Traceback" ]_vars

(* ---------------------------------------------------------------------- *)
(* C17: the response to a fragment that raised carries a non-null error    *)
(* together with everything the fragment wrote to stdout and stderr before *)
(* it raised; the stdout of every code response is the In [n] header       *)
(* echoing the code, then the captured output, then a newline if the       *)
(* output did not end with one, then the Out[n] line if there is one.      *)
(* ---------------------------------------------------------------------- *)
C17_OutputBeforeFailure ==
    [][ (HandleStep /\ IsCode /\ Answered(out'))
        => /\ Raised =>
                 /\ Answer(out').error # NoError
                 /\ Prefix((IF AsExpression THEN Evaluated ELSE Executed).out,
                           Texts(OfKind(Answer(out').stdout, "raw")))
                 /\ Prefix((IF AsExpression THEN Evaluated ELSE Executed).err, Answer(out').stderr)
           /\ \A i \in DOMAIN Answer(out').stdout : \A j \in DOMAIN Answer(out').stdout :
                 i < j => Rank(Answer(out').stdout[i].k) <= Rank(Answer(out').stdout[j].k)
           /\ OfKind(Answer(out').stdout, "In") \o OfKind(Answer(out').stdout, "cont")
                 = FormatInput(Req.code, counter)
           /\ Len(OfKind(Answer(out').stdout, "Out")) <= 1
           /\ Len(OfKind(Answer(out').stdout, "nl"))
                 = IF /\ OfKind(Answer(out').stdout, "raw") # <<>>
                      /\ Answer(out').stdout[Len(OfKind(Answer(out').stdout, "In"))
                                             + Len(OfKind(Answer(out').stdout, "cont"))
                                             + Len(OfKind(Answer(out').stdout, "raw"))].s # "\n"
                   THEN 1 ELSE 0 ]_vars

(* ---------------------------------------------------------------------- *)
(* Vocabulary of the properties about the life of the process              *)
(* ---------------------------------------------------------------------- *)
\* the step in which a signal reaches the server
SignalStep == ~proc.signalled /\ proc'.signalled
\* a request has been received and its handler has not yet answered it
RequestInFlight == srv = "handle" /\ conn.open /\ HasNewline(conn.data) /\ Raw # Empty
\* the step in which serve enters its accept loop
EntersLoop == srv = "signals" /\ srv' = "accept"

(* ---------------------------------------------------------------------- *)
(* C13: a termination signal that reaches a server with its handlers       *)
(* installed closes the listening socket and removes the socket file; a    *)
(* server that is handling no connection then exits with status 0, and a   *)
(* handler that holds a received request is not interrupted: the process   *)
(* lives on and the handler keeps its connection.                          *)
(* ---------------------------------------------------------------------- *)
C13_SignalSparesRequest ==
    [][ (SignalStep /\ proc.handlers)
        => /\ ~proc'.listening
           /\ fs'.sock = NoFile
           /\ srv # "handle" => proc'.status = "0"
           /\ RequestInFlight => (proc'.status = "running" /\ srv' = "handle" /\ conn' = conn) ]_vars

(* ---------------------------------------------------------------------- *)
(* C14: whenever a server process enters its accept loop, its namespace is *)
(* exactly the variables given to the start() that spawned it, its counter *)
(* is 1 and it has written no code response, whatever an earlier process   *)
(* on the same socket path had bound or counted.                           *)
(* ---------------------------------------------------------------------- *)
C14_FreshNamespaceOnRestart ==
    [][ EntersLoop
        => /\ namespace' = fs.vars
           /\ counter' = 1
           /\ transcript' = <<>> ]_vars

\* the second process on the path answered a get of b, which the first process
\* had bound, with the NameError text, while its own pre-seed a = 2 is bound
C14_Witness ==
    /\ proc.gen = 2
    /\ srv = "accept"
    /\ client.prev["b"] = "2"
    /\ fs.vars["a"] = "2"
    /\ namespace["a"] = "2" /\ namespace["b"] = Missing
    /\ IsObject /\ Req.has = {"get"}
    /\ Answered(out) /\ Answer(out).error = NameErrorText("b")
    /\ counter = 1

(* ---------------------------------------------------------------------- *)
(* C15: when start() returns the Repl, the new server is listening on the  *)
(* socket file at the path, so that a connect is not refused.              *)
(* ---------------------------------------------------------------------- *)
C15_ReadyMeansConnectable ==
    [][ (client.pc = "polling" /\ client'.pc = "returned")
        => (proc'.listening /\ fs'.sock = proc'.gen) ]_vars

(* ---------------------------------------------------------------------- *)
(* Vocabulary of the properties about the client side                      *)
(* ---------------------------------------------------------------------- *)
\* a function defined in a notebook whose body does not read the host's objects
NotebookFunction(fn) ==
    /\ fn.kind = "function"
    /\ GetIpython \in KeysOf(fn.globals)
    /\ \A it \in ItemsOf(fn.globals) : it.v.dumps # PyNone => it.k \notin fn.uses
\* the items of NotebookGlobals the denylist names: get_ipython and In by
\* name, _i1 by the _i<digits> pattern, the zmq socket and the ipykernel comm
\* by the module of their type
Denylisted(it) == it.v.id \in {101, 102, 103, 105, 108}
Holds(items, id) == \E it \in ItemsOf(items) : it.v.id = id

(* ---------------------------------------------------------------------- *)
(* C18: repl.set(a=f) returns without raising and binds a on the server    *)
(* for a notebook function f whose globals hold host objects that cannot   *)
(* be encoded and that its body does not use.                              *)
(* ---------------------------------------------------------------------- *)
C18_SetSanitizes ==
    (nb.pc = "set" /\ NotebookFunction(nb.fn))
        => (nb.raised = PyNone /\ namespace["a"] = Fn_)

(* ---------------------------------------------------------------------- *)
(* C19: clean_for_notebook returns the object it was given, the same       *)
(* identity and not a copy, when the argument is not callable, has no      *)
(* __globals__, or has globals without the name get_ipython.               *)
(* ---------------------------------------------------------------------- *)
C19_PassThroughIdentity ==
    (nb.pc = "cleaned"
     /\ (~Callable(nb.fn) \/ ~HasGlobals(nb.fn) \/ GetIpython \notin KeysOf(nb.fn.globals)))
        => (nb.exc = PyNone /\ nb.ret.id = nb.fn.id /\ nb.ret = nb.fn)

\* a function whose globals hold a zmq socket but not get_ipython came back itself
C19_Witness ==
    /\ nb.pc = "cleaned"
    /\ nb.fn.kind = "function"
    /\ GetIpython \notin KeysOf(nb.fn.globals)
    /\ Holds(nb.fn.globals, 105)
    /\ nb.ret.id = nb.fn.id
    /\ Holds(nb.ret.globals, 105)

(* ---------------------------------------------------------------------- *)
(* C20: a call of clean_for_notebook never raises and leaves its argument  *)
(* and the argument's globals as they were; when it builds a new function, *)
(* that function keeps the code, name, defaults and closure, and its       *)
(* globals are exactly the original items, values unchanged and in their   *)
(* order, that the denylist does not name and that the encode probe        *)
(* accepts.                                                                *)
(* ---------------------------------------------------------------------- *)
C20_ReducedGlobals ==
    nb.pc = "cleaned"
        => /\ nb.exc = PyNone
           /\ nb.arg = nb.fn
           /\ nb.ret.id # nb.fn.id =>
                 /\ ItemsOf(nb.ret.globals)
                       = {it \in ItemsOf(nb.fn.globals) : ~Denylisted(it) /\ it.v.dumps = PyNone}
                 /\ nb.ret.globals
                       = SelectSeq(nb.fn.globals, LAMBDA it : it \in ItemsOf(nb.ret.globals))
                 /\ [nb.ret EXCEPT !.id = nb.fn.id, !.globals = nb.fn.globals] = nb.fn

\* a new function was built: the sqlite connection fell to the probe, the
\* encodable ipykernel comm to the denylist, helper and _ix were kept
C20_Witness ==
    /\ nb.pc = "cleaned"
    /\ nb.ret.id # nb.fn.id
    /\ Holds(nb.fn.globals, 106) /\ ~Holds(nb.ret.globals, 106)
    /\ Holds(nb.fn.globals, 108) /\ ~Holds(nb.ret.globals, 108)
    /\ Holds(nb.ret.globals, 107) /\ Holds(nb.ret.globals, 104)

(* ---------------------------------------------------------------------- *)
(* Vocabulary of the properties about _is_notebook_global                  *)
(* ---------------------------------------------------------------------- *)
\* the name is _i followed by one or more digits
NumberedInput(k) ==
    /\ Len(k) >= 3
    /\ k[1] = "_" /\ k[2] = "i"
    /\ \A i \in 3..Len(k) : k[i] \in Digits
Dots(m) == {i \in DOMAIN m : m[i] = "."}
\* the top-level package of a dotted module name
Package(m) ==
    IF Dots(m) = {} THEN m
    ELSE SubSeq(m, 1, (CHOOSE i \in Dots(m) : \A j \in Dots(m) : i <= j) - 1)
HostPackages == {<<"z", "m", "q">>, <<"i", "p", "y", "k", "e", "r", "n", "e", "l">>, <<"I", "P", "y", "t", "h", "o", "n">>}
\* the module belongs to one of the three families: the package or below it
InFamily(m) == Package(m) \in HostPackages
\* the module is a submodule of one of the three packages
BelowPackage(m) == Package(m) \in HostPackages /\ Dots(m) # {}

(* ---------------------------------------------------------------------- *)
(* C21 as stated: _is_notebook_global(k, v) is true exactly when k is one  *)
(* of the injected names, or is _i followed by digits, or the type of v is *)
(* defined in a module of the zmq, ipykernel or IPython families.          *)
(* ---------------------------------------------------------------------- *)
C21_FamilyModules ==
    nb.pc = "judged"
        => (nb.is <=> (nb.k \in IPYTHON_INJECTED \/ NumberedInput(nb.k) \/ InFamily(nb.v.module)))

(* ---------------------------------------------------------------------- *)
(* C21: _is_notebook_global(k, v) is true exactly when k is one of the     *)
(* injected names, or is _i followed by one or more digits, or the type of *)
(* v is defined in a submodule of the zmq, ipykernel or IPython packages   *)
(* (a module name beginning zmq., ipykernel. or IPython.); a type whose    *)
(* module is one of the three top-level packages itself is not matched.    *)
(* ---------------------------------------------------------------------- *)
C21_Submodules ==
    nb.pc = "judged"
        => (nb.is <=> (nb.k \in IPYTHON_INJECTED \/ NumberedInput(nb.k) \/ BelowPackage(nb.v.module)))

\* an ordinary name whose value has a type of module zmq was judged not to
\* belong to the host
C21_Witness ==
    /\ nb.pc = "judged"
    /\ nb.k = <<"h", "e", "l", "p", "e", "r">>
    /\ nb.v.module = <<"z", "m", "q">>
    /\ ~nb.is

(* ---------------------------------------------------------------------- *)
(* C22: a call of Repl.set that got a response raises RuntimeError with    *)
(* the response's error text when the error is non-null and returns        *)
(* normally when it is null; either way the client sent one request and    *)
(* the server dispatched one.                                              *)
(* ---------------------------------------------------------------------- *)
C22_SetRaisesResponseError ==
    (nb.pc = "set" /\ Answered(out))
        => /\ Answer(out).error # NoError
                 => (nb.raised = "RuntimeError" /\ nb.text = Answer(out).error)
           /\ Answer(out).error = NoError => nb.raised = PyNone
           /\ nb.sent = 1
           /\ ndisp = 1

\* the server could not resolve the pickled reference to a function of the
\* caller's main module: its trace came back as the text of a RuntimeError
C22_Witness ==
    /\ nb.pc = "set"
    /\ nb.fn.where = "main"
    /\ Answered(out)
    /\ Answer(out).error = Traceback("AttributeError")
    /\ nb.raised = "RuntimeError"
    /\ nb.text = Traceback("AttributeError")
    /\ nb.sent = 1

(* ---------------------------------------------------------------------- *)
(* Vocabulary of the properties about set                                  *)
(* ---------------------------------------------------------------------- *)
PairsOf(payload, n) == {i \in DOMAIN payload.items : payload.items[i].ok /\ payload.items[i].k = n}
\* the value the decoded payload gives the name n (Missing: it has no such key)
Binds(payload, n) ==
    IF payload.u = "dict" THEN payload.m[n]
    ELSE IF PairsOf(payload, n) = {} THEN Missing
    ELSE payload.items[LastOf(PairsOf(payload, n))].v
SetStep == HandleStep /\ Raw.t = "json" /\ Iterable(Req) /\ Shape(Req) = "set"

(* ---------------------------------------------------------------------- *)
(* C23: a set request answered with a null error has bound every key of    *)
(* the decoded payload to the payload's value (the new value wins over an  *)
(* old one), has left every other name as it was and the counter           *)
(* unchanged, and its response has empty stdout and empty stderr.          *)
(* ---------------------------------------------------------------------- *)
C23_SetMerges ==
    [][ (SetStep /\ Answered(out') /\ Answer(out').error = NoError)
        => /\ \A n \in Names :
                  namespace'[n] = IF Binds(Req.set, n) # Missing THEN Binds(Req.set, n)
                                  ELSE namespace[n]
           /\ counter' = counter
           /\ Answer(out').stdout = <<>>
           /\ Answer(out').stderr = <<>> ]_vars

\* no code has run, so b = 2 came with the set of {a: 2, b: 2}; the set of
\* {a: 1} answered last replaced a and kept b
C23_Witness ==
    /\ srv = "accept"
    /\ counter = 1
    /\ IsObject /\ Shape(Req) = "set"
    /\ Req.set = DictPayload([EmptyNamespace EXCEPT !["a"] = "1"])
    /\ Answered(out) /\ Answer(out).error = NoError
    /\ namespace["a"] = "1"
    /\ namespace["b"] = "2"

(* ---------------------------------------------------------------------- *)
(* C29: a code request runs its fragment at most once: what the response   *)
(* shows as written to stdout and stderr is what one run of the fragment   *)
(* writes (one evaluation of an expression, one run of statements), also   *)
(* when the evaluation of an expression raises SyntaxError at run time.    *)
(* ---------------------------------------------------------------------- *)
C29_RunsAtMostOnce ==
    [][ (HandleStep /\ IsCode /\ Answered(out'))
        => /\ Texts(OfKind(Answer(out').stdout, "raw"))
                 = (IF AsExpression THEN Evaluated ELSE Executed).out
           /\ Answer(out').stderr = (IF AsExpression THEN Evaluated ELSE Executed).err ]_vars

(* ---------------------------------------------------------------------- *)
(* Vocabulary of the properties about the streams                          *)
(* ---------------------------------------------------------------------- *)
\* the texts the steps of a fragment write with the given operation
Writes(code, op) == {code.steps[i].n : i \in {j \in DOMAIN code.steps : code.steps[j].op = op}}
Items(seq) == {seq[i] : i \in DOMAIN seq}

(* ---------------------------------------------------------------------- *)
(* C24: the namespace a code request leaves to the next request is the     *)
(* namespace one run of its fragment leaves: every assignment the fragment *)
(* made, those before a raise included, and nothing else.                  *)
(* ---------------------------------------------------------------------- *)
C24_MutationsVisible ==
    [][ (HandleStep /\ IsCode /\ Answered(out'))
        => \A n \in UserNames :
              namespace'[n] = (IF AsExpression THEN Evaluated ELSE Executed).ns[n] ]_vars

(* ---------------------------------------------------------------------- *)
(* C25: when execute has returned or raised, sys.stdout and sys.stderr of  *)
(* the process are what they were before the call, whatever the fragment   *)
(* did; the response holds only text that this request's fragment wrote.   *)
(* ---------------------------------------------------------------------- *)
C25_StreamsRestored ==
    [][ (HandleStep /\ IsCode)
        => /\ proc'.stdout = proc.stdout
           /\ proc'.stderr = proc.stderr
           /\ Answered(out')
                 => /\ Items(Texts(OfKind(Answer(out').stdout, "raw"))) \subseteq Writes(Req.code, "print")
                    /\ Items(Answer(out').stderr) \subseteq Writes(Req.code, "warn") ]_vars

\* the third request pointed sys.stdout elsewhere and raised; the process
\* writes to its pipe again, and the response holds none of the text that
\* the earlier requests printed
C25_Witness ==
    /\ srv = "accept"
    /\ counter = 4
    /\ IsCode
    /\ SetOut("fd1") \in Items(Req.code.steps)
    /\ Answered(out)
    /\ Answer(out).error = Traceback("ZeroDivisionError")
    /\ OfKind(Answer(out).stdout, "raw") = <<>>
    /\ proc.stdout = "pipe"
    /\ proc.stderr = "fd2"

(* ---------------------------------------------------------------------- *)
(* Vocabulary of the properties about the socket path and the pre-seed      *)
(* ---------------------------------------------------------------------- *)
\* the step in which the server binds, or fails to bind, its socket
BindStep == srv = "bind" /\ srv' \in {"listen", "dead"}
\* the step in which load_init_namespace returns or raises
LoadStep == srv = "load" /\ srv' \in {"bind", "dead"}
\* the step that ends the older of two servers on the path
OlderEnds == proc.old /\ ~proc'.old

(* ---------------------------------------------------------------------- *)
(* C26: a server always binds its socket successfully, whatever file the   *)
(* previous instance left at the path (after a signal before the handlers  *)
(* were installed, after accept failed, after a crash while serving):      *)
(* the file it finds is removed before the bind.                           *)
(* ---------------------------------------------------------------------- *)
C26_StaleSocketRemoved ==
    [][ BindStep => (srv' = "listen" /\ fs'.sock = proc.gen /\ proc'.status = "running") ]_vars

\* the second process found the socket file of the first, which had ended
\* without removing it, and has answered a request on its own socket
C26_Witness ==
    /\ proc.gen = 2
    /\ proc.found = 1
    /\ proc.status = "running"
    /\ fs.sock = 2
    /\ srv = "accept"
    /\ Answered(out)

(* ---------------------------------------------------------------------- *)
(* C27: when load_init_namespace is over, the pre-seed file is gone; with  *)
(* no pre-seed configured the namespace is empty, with a decodable one it  *)
(* is the decoded payload, and with one that cannot be decoded the process *)
(* ends without binding its socket.                                        *)
(* ---------------------------------------------------------------------- *)
C27_PreSeedConsumed ==
    [][ LoadStep
        => /\ ~fs'.init
           /\ ~fs.init => (namespace' = EmptyNamespace /\ srv' = "bind")
           /\ (fs.init /\ ~fs.bad) => (namespace' = fs.vars /\ srv' = "bind")
           /\ (fs.init /\ fs.bad)
                 => (srv' = "dead" /\ proc'.status = "1" /\ ~proc'.listening
                     /\ fs'.sock = NoFile) ]_vars

\* a pre-seed that could not be decoded: the process has ended with status 1,
\* no socket file was made and the pre-seed file is gone
C27_Witness ==
    /\ srv = "dead"
    /\ proc.status = "1"
    /\ fs.bad
    /\ ~fs.init
    /\ fs.sock = NoFile
    /\ fs.vars["a"] = "2"

(* ---------------------------------------------------------------------- *)
(* C30: with two servers started on one path, the step that ends the older *)
(* one (a signal, or Repl.close on its handle) leaves the socket file of   *)
(* the newer live server in place.                                         *)
(* ---------------------------------------------------------------------- *)
C30_OlderSparesNewerSocket ==
    [][ (OlderEnds /\ proc.status = "running" /\ fs.sock = proc.gen)
        => fs'.sock = proc.gen ]_vars

(* ---------------------------------------------------------------------- *)
(* C28: when the constructor or a mutating method of a mirrored list       *)
(* (Context, ReplList) has returned normally, the server's namespace holds *)
(* under the list's name a list equal to the full local contents, and the  *)
(* call sent one set request, whose payload is that whole list and which   *)
(* the server answered with a null error.                                  *)
(* ---------------------------------------------------------------------- *)
C28_MirrorInSync ==
    (nb.pc = "list" /\ nb.raised = PyNone)
        => /\ namespace[nb.name] = ListValue(nb.data)
           /\ nb.sent = 1
           /\ ndisp = 1
           /\ IsObject /\ Req.has = {"set"}
           /\ Req.set.m[nb.name] = ListValue(nb.data)
           /\ Answered(out) /\ Answer(out).error = NoError

\* a Context took an element x and a pydantic model with +=, the model
\* coerced to a dict: the server holds both under b
C28_Witness ==
    /\ nb.pc = "list"
    /\ nb.cls = "Context"
    /\ nb.name = "b"
    /\ nb.op = "__iadd__"
    /\ nb.raised = PyNone
    /\ nb.data = <<"x", Dump_>>
    /\ namespace["b"] = "[x, <dump>]"
    /\ namespace["a"] = Missing

(* ---------------------------------------------------------------------- *)
(* Vocabulary of the properties about waiting clients                      *)
(* ---------------------------------------------------------------------- *)
\* a step the server takes by itself: accepting, noticing the end of the
\* input, handling what it has received
ServerStep == Accept \/ RecvEof \/ HandleRequest
\* what the handler would leave had the client kept its connection open
HadItListened == Handle(conn.data, "open", namespace, counter)

(* ---------------------------------------------------------------------- *)
(* C31: while a client waits in the listen queue of a running server, the  *)
(* server always has a step of its own to take, so the client accepted     *)
(* before, by sending no newline and not closing, cannot hold it up.       *)
(* ---------------------------------------------------------------------- *)
C31_QueuedClientNotHeldUp ==
    (backlog > 0 /\ srv \in {"accept", "handle"} /\ counter <= MaxCounter)
        => ENABLED ServerStep

(* ---------------------------------------------------------------------- *)
(* C32: when the client has closed its connection before the response to   *)
(* its request is written, the server keeps running and goes back to       *)
(* accepting, with the namespace and the counter as the request left them. *)
(* ---------------------------------------------------------------------- *)
C32_ClosedPeerSparesServer ==
    [][ (HandleStep /\ conn.peer = "closed" /\ Raw # Empty /\ HadItListened.escapes = PyNone)
        => /\ srv' = "accept"
           /\ proc'.status = "running"
           /\ namespace' = HadItListened.namespace
           /\ counter' = HadItListened.counter ]_vars

====
